---- MODULE Spec2Model ----
(***************************************************************************)
(* Model of records_ai_chats_analysis.                                     *)
(*                                                                         *)
(* Part 1: the alert ingestion consumer (AlertsController and              *)
(*         AlertsService): one queue message, its deliveries, the four     *)
(*         handlers, the alert collection.                                 *)
(* Part 2: the conversation store, the scheduled analysis and the          *)
(*         on-demand analysis (WhatsappStorageService.saveChat,           *)
(*         ConversationsService, OllamaService).                           *)
(***************************************************************************)
EXTENDS Integers, Sequences, FiniteSets, TLC

VARIABLES
    payload,     \* data.alert of the queue message, and the pattern it is routed by
    qstate,      \* the message at the broker: "ready", "unacked" or "acked"
    hpc,         \* position of the handler of the current delivery
    trace,       \* what the handler of the current delivery has done so far
    pending,     \* the document handed to alertModel.create, while it is awaited
    alerts,      \* the alert collection, in insertion order
    origin,      \* history: for each alert row, the delivery that created it
    deliveries,  \* number of deliveries of the message so far
    acks,        \* number of channel.ack calls on the message
    nacks,       \* number of channel.nack(msg, false, true) calls on the message
    rejects,     \* number of writes the store has rejected
    crashes,     \* number of times the channel was lost with the message unacked
    sessions,    \* the session collection: sessionId -> document
    chats,       \* the chat collection: <<sessionId, chatId>> -> document or NoChat
    runs,        \* the passes of the scheduled job and the on-demand requests
    now,         \* the wall clock, in seconds
    ollamaTimeout, \* OLLAMA_TIMEOUT as read at construction, in milliseconds
    messages,    \* the message collection: <<sessionId, messageId>> -> document
    maxMessagesForAnalysis, \* MAX_MESSAGES_FOR_ANALYSIS as read at construction
    projectConfig, \* the project configuration handed to OllamaService
    transcript,  \* what getConversationMessages has returned
    prompts,     \* history: the prompts built so far, with their inputs
    reply,       \* response.message.content of ollama.chat
    analysisResult, \* what OllamaService.analyzeConversation has returned
    messageDocs, \* the message collection as a list of documents, in insertion order
    storageCalls \* the storage calls in flight: call id -> position and what it has read

alertVars == <<payload, qstate, hpc, trace, pending, alerts, origin,
               deliveries, acks, nacks, rejects, crashes>>

analysisVars == <<sessions, chats, runs, now, ollamaTimeout>>

inferenceVars == <<messages, maxMessagesForAnalysis, projectConfig, transcript,
                   prompts, reply, analysisResult>>

storageVars == <<messageDocs, storageCalls>>

vars == <<alertVars, analysisVars, inferenceVars, storageVars>>

----------------------------------------------------------------------------
(* Bounds *)

MaxRejects == 2
MaxCrashes == 1
MaxDeliveries == MaxRejects + MaxCrashes + 1

----------------------------------------------------------------------------
(* Optional values: a field of a JSON payload is absent or carries a value *)

None == <<>>
Some(v) == <<v>>

\* !x of JavaScript for an optional string: undefined and "" are falsy
FalsyStr(f) == f = None \/ f[1] = ""

\* !x of JavaScript for an optional number: undefined and 0 are falsy
FalsyNum(f) == f = None \/ f[1] = 0

----------------------------------------------------------------------------
(* Payloads *)

Patterns == {"disconnected", "message_deleted", "message_edited", "chat_removed"}

SessionValues   == {None, Some("bad"), Some("oid1")}
SessionIdValues == {None, Some("s1")}
MessageIdValues == {None, Some(""), Some("m1")}
ChatIdValues    == {None, Some(""), Some("c1")}
TimestampValues == {None, Some(0), Some(1700)}
MessageValues   == {None, Some("txt")}

Payloads ==
    [pattern   : Patterns,
     session   : SessionValues,
     sessionId : SessionIdValues,
     messageId : MessageIdValues,
     chatId    : ChatIdValues,
     timestamp : TimestampValues,
     message   : MessageValues]

\* new Types.ObjectId(x): generates an id for undefined, throws for a string
\* that is not an ObjectId
ObjectIdThrows(session) == session = Some("bad")

ToObjectId(session) == IF session = None THEN "generated" ELSE session[1]

----------------------------------------------------------------------------
(* AlertsService: the documents handed to alertModel.create *)

AlertDoc(type, p, messageId, chatId, timestamp, message) ==
    [session   |-> ToObjectId(p.session),
     sessionId |-> p.sessionId,
     type      |-> type,
     messageId |-> messageId,
     chatId    |-> chatId,
     timestamp |-> timestamp,
     message   |-> message,
     isRead    |-> FALSE,
     readAt    |-> None]

createDisconnectedAlert(p) ==
    AlertDoc("disconnected", p, None, None, None,
             IF p.message = None THEN <<"WhatsApp session disconnected">> ELSE p.message)

createMessageDeletedAlert(p) ==
    AlertDoc("message_deleted", p, p.messageId, p.chatId, p.timestamp,
             IF p.message = None THEN <<"--">> ELSE p.message)

createMessageEditedAlert(p) ==
    AlertDoc("message_edited", p, p.messageId, p.chatId, p.timestamp,
             IF p.message = None THEN <<"Message edited: ", p.messageId[1]>> ELSE p.message)

createChatRemovedAlert(p) ==
    AlertDoc("chat_removed", p, None, p.chatId, p.timestamp,
             IF p.message = None THEN <<"Chat removed: ", p.chatId[1]>> ELSE p.message)

----------------------------------------------------------------------------
(* AlertsController: the validation each handler applies before it persists *)

\* handleDisconnectedAlert validates nothing
DisconnectedMissing(p) == FALSE

\* Mutant: the three tests joined by && instead of ||
MessageAlertMissing_AllOf(p) ==
    FalsyStr(p.messageId) /\ FalsyStr(p.chatId) /\ FalsyNum(p.timestamp)

\* !data.alert.messageId || !data.alert.chatId || !data.alert.timestamp
MessageAlertMissing(p) ==
    FalsyStr(p.messageId) \/ FalsyStr(p.chatId) \/ FalsyNum(p.timestamp)

\* !data.alert.chatId || !data.alert.timestamp
ChatRemovedMissing(p) == FalsyStr(p.chatId) \/ FalsyNum(p.timestamp)

(* The channel: manual acknowledgement (noAck: false) *)

\* channel.ack(originalMsg): the broker removes the message
ChannelAck ==
    /\ qstate' = "acked"
    /\ acks' = acks + 1
    /\ nacks' = nacks

\* channel.nack(originalMsg, false, true): the broker requeues the message
ChannelNackRequeue ==
    /\ qstate' = "ready"
    /\ nacks' = nacks + 1
    /\ acks' = acks

\* The broker delivers the ready message to the handler its pattern names
Delivered(pattern) ==
    /\ qstate = "ready"
    /\ payload.pattern = pattern
    /\ deliveries < MaxDeliveries
    /\ deliveries' = deliveries + 1

\* Mutant: the handler acknowledges as soon as it has issued the create
HandlerBody_AckFirst(missing, doc) ==
    IF missing
    THEN /\ ChannelAck
         /\ trace' = <<"missing", "ack">>
         /\ hpc' = "returned"
         /\ pending' = None
    ELSE IF ObjectIdThrows(payload.session)
    THEN /\ ChannelNackRequeue
         /\ trace' = <<"throw", "nack">>
         /\ hpc' = "returned"
         /\ pending' = None
    ELSE /\ ChannelAck
         /\ trace' = <<"create", "ack">>
         /\ hpc' = "awaitCreate"
         /\ pending' = Some(doc)

\* Mutant: the branch for missing fields returns without acknowledging
HandlerBody_NoAckOnMissing(missing, doc) ==
    IF missing
    THEN /\ qstate' = "unacked"
         /\ trace' = <<"missing">>
         /\ hpc' = "returned"
         /\ pending' = None
         /\ UNCHANGED <<acks, nacks>>
    ELSE IF ObjectIdThrows(payload.session)
    THEN /\ ChannelNackRequeue
         /\ trace' = <<"throw", "nack">>
         /\ hpc' = "returned"
         /\ pending' = None
    ELSE /\ qstate' = "unacked"
         /\ trace' = <<"create">>
         /\ hpc' = "awaitCreate"
         /\ pending' = Some(doc)
         /\ UNCHANGED <<acks, nacks>>

\* A handler from its entry to its first await: drop a payload with missing
\* fields, fail on the ObjectId, or hand the document to the store
HandlerBody(missing, doc) ==
    IF missing
    THEN /\ ChannelAck
         /\ trace' = <<"missing", "ack">>
         /\ hpc' = "returned"
         /\ pending' = None
    ELSE IF ObjectIdThrows(payload.session)
    THEN /\ ChannelNackRequeue
         /\ trace' = <<"throw", "nack">>
         /\ hpc' = "returned"
         /\ pending' = None
    ELSE /\ qstate' = "unacked"
         /\ trace' = <<"create">>
         /\ hpc' = "awaitCreate"
         /\ pending' = Some(doc)
         /\ UNCHANGED <<acks, nacks>>

handleDisconnectedAlert ==
    /\ Delivered("disconnected")
    /\ HandlerBody(DisconnectedMissing(payload), createDisconnectedAlert(payload))
    /\ UNCHANGED <<payload, alerts, origin, rejects, crashes>>
    /\ UNCHANGED <<analysisVars, inferenceVars, storageVars>>

handleMessageDeletedAlert ==
    /\ Delivered("message_deleted")
    /\ HandlerBody(MessageAlertMissing(payload), createMessageDeletedAlert(payload))
    /\ UNCHANGED <<payload, alerts, origin, rejects, crashes>>
    /\ UNCHANGED <<analysisVars, inferenceVars, storageVars>>

handleMessageEditedAlert ==
    /\ Delivered("message_edited")
    /\ HandlerBody(MessageAlertMissing(payload), createMessageEditedAlert(payload))
    /\ UNCHANGED <<payload, alerts, origin, rejects, crashes>>
    /\ UNCHANGED <<analysisVars, inferenceVars, storageVars>>

handleChatRemovedAlert ==
    /\ Delivered("chat_removed")
    /\ HandlerBody(ChatRemovedMissing(payload), createChatRemovedAlert(payload))
    /\ UNCHANGED <<payload, alerts, origin, rejects, crashes>>
    /\ UNCHANGED <<analysisVars, inferenceVars, storageVars>>

\* Mutant: the store keeps one row per document (an upsert on the payload)
CreateCommit_Dedup ==
    /\ hpc = "awaitCreate"
    /\ alerts' = IF pending[1] \in {alerts[i] : i \in DOMAIN alerts}
                 THEN alerts ELSE Append(alerts, pending[1])
    /\ origin' = IF pending[1] \in {alerts[i] : i \in DOMAIN alerts}
                 THEN origin ELSE Append(origin, deliveries)
    /\ hpc' = "created"
    /\ trace' = Append(trace, "persisted")
    /\ pending' = None
    /\ UNCHANGED <<payload, qstate, deliveries, acks, nacks, rejects, crashes>>
    /\ UNCHANGED <<analysisVars, inferenceVars, storageVars>>

\* alertModel.create inserts the document and resolves
CreateCommit ==
    /\ hpc = "awaitCreate"
    /\ alerts' = Append(alerts, pending[1])
    /\ origin' = Append(origin, deliveries)
    /\ hpc' = "created"
    /\ trace' = Append(trace, "persisted")
    /\ pending' = None
    /\ UNCHANGED <<payload, qstate, deliveries, acks, nacks, rejects, crashes>>
    /\ UNCHANGED <<analysisVars, inferenceVars, storageVars>>

\* Mutant: the handler acknowledges twice after the create
AckAfterCreate_Twice ==
    /\ hpc = "created"
    /\ qstate' = "acked"
    /\ acks' = acks + 2
    /\ nacks' = nacks
    /\ hpc' = "returned"
    /\ trace' = trace \o <<"ack", "ack">>
    /\ UNCHANGED <<payload, pending, alerts, origin, deliveries, rejects, crashes>>
    /\ UNCHANGED <<analysisVars, inferenceVars, storageVars>>

\* the handler resumes after the await: channel.ack(originalMsg)
AckAfterCreate ==
    /\ hpc = "created"
    /\ ChannelAck
    /\ hpc' = "returned"
    /\ trace' = Append(trace, "ack")
    /\ UNCHANGED <<payload, pending, alerts, origin, deliveries, rejects, crashes>>
    /\ UNCHANGED <<analysisVars, inferenceVars, storageVars>>

\* Mutant: the catch requeues once, then acknowledges to drop the message
CreateThrows_RetryOnce ==
    /\ hpc = "awaitCreate"
    /\ rejects < MaxRejects
    /\ rejects' = rejects + 1
    /\ IF nacks >= 1 THEN ChannelAck ELSE ChannelNackRequeue
    /\ hpc' = "returned"
    /\ trace' = trace \o <<"throw", IF nacks >= 1 THEN "ack" ELSE "nack">>
    /\ pending' = None
    /\ UNCHANGED <<payload, alerts, origin, deliveries, crashes>>
    /\ UNCHANGED <<analysisVars, inferenceVars, storageVars>>

\* Mutant: the catch acknowledges instead of requeueing
CreateThrows_Ack ==
    /\ hpc = "awaitCreate"
    /\ rejects < MaxRejects
    /\ rejects' = rejects + 1
    /\ ChannelAck
    /\ hpc' = "returned"
    /\ trace' = trace \o <<"throw", "ack">>
    /\ pending' = None
    /\ UNCHANGED <<payload, alerts, origin, deliveries, crashes>>
    /\ UNCHANGED <<analysisVars, inferenceVars, storageVars>>

\* Mutant: the catch rejects without requeue, the broker discards the message
CreateThrows_NoRequeue ==
    /\ hpc = "awaitCreate"
    /\ rejects < MaxRejects
    /\ rejects' = rejects + 1
    /\ qstate' = "discarded"
    /\ nacks' = nacks + 1
    /\ acks' = acks
    /\ hpc' = "returned"
    /\ trace' = trace \o <<"throw", "nack">>
    /\ pending' = None
    /\ UNCHANGED <<payload, alerts, origin, deliveries, crashes>>
    /\ UNCHANGED <<analysisVars, inferenceVars, storageVars>>

\* alertModel.create throws, the service rethrows, the handler's catch
\* negatively acknowledges with requeue
CreateThrows ==
    /\ hpc = "awaitCreate"
    /\ rejects < MaxRejects
    /\ rejects' = rejects + 1
    /\ ChannelNackRequeue
    /\ hpc' = "returned"
    /\ trace' = trace \o <<"throw", "nack">>
    /\ pending' = None
    /\ UNCHANGED <<payload, alerts, origin, deliveries, crashes>>
    /\ UNCHANGED <<analysisVars, inferenceVars, storageVars>>

\* The process or its channel dies while the message is unacknowledged: the
\* handler never resumes and the broker requeues the message
ConnectionLost ==
    /\ qstate = "unacked"
    /\ crashes < MaxCrashes
    /\ crashes' = crashes + 1
    /\ qstate' = "ready"
    /\ hpc' = "lost"
    /\ pending' = None
    /\ UNCHANGED <<payload, trace, alerts, origin, deliveries, acks, nacks, rejects>>
    /\ UNCHANGED <<analysisVars, inferenceVars, storageVars>>

\* configService.get('OLLAMA_TIMEOUT', 60000)
OllamaTimeoutDefault == 60000

\* configService.get('MAX_MESSAGES_FOR_ANALYSIS', 50)
MaxMessagesDefault == 50

\* no message stored, OllamaService constructed and not called
InferenceAtRest ==
    /\ messages = <<>>
    /\ maxMessagesForAnalysis = MaxMessagesDefault
    /\ projectConfig = None
    /\ transcript = None
    /\ prompts = <<>>
    /\ reply = None
    /\ analysisResult = None

\* no storage call in flight; the list form of the message collection is
\* not in use
StorageAtRest ==
    /\ messageDocs = <<>>
    /\ storageCalls = <<>>

AlertInit ==
    /\ payload \in Payloads
    /\ qstate = "ready"
    /\ hpc = "idle"
    /\ trace = <<>>
    /\ pending = None
    /\ alerts = <<>>
    /\ origin = <<>>
    /\ deliveries = 0
    /\ acks = 0
    /\ nacks = 0
    /\ rejects = 0
    /\ crashes = 0
    /\ sessions = <<>>
    /\ chats = <<>>
    /\ runs = <<>>
    /\ now = 1
    /\ ollamaTimeout = OllamaTimeoutDefault
    /\ InferenceAtRest
    /\ StorageAtRest

AlertNext ==
    \/ handleDisconnectedAlert
    \/ handleMessageDeletedAlert
    \/ handleMessageEditedAlert
    \/ handleChatRemovedAlert
    \/ CreateCommit
    \/ AckAfterCreate
    \/ CreateThrows
    \/ ConnectionLost

AlertSpec == AlertInit /\ [][AlertNext]_vars

\* The event loop resumes every handler, the store answers every create, and
\* the broker redelivers a requeued message. The store rejects at most
\* MaxRejects writes and the channel is lost at most MaxCrashes times.
AlertLiveSpec ==
    /\ AlertSpec
    /\ WF_vars(handleDisconnectedAlert)
    /\ WF_vars(handleMessageDeletedAlert)
    /\ WF_vars(handleMessageEditedAlert)
    /\ WF_vars(handleChatRemovedAlert)
    /\ WF_vars(CreateCommit \/ CreateThrows)
    /\ WF_vars(AckAfterCreate)

----------------------------------------------------------------------------
(* Part 2: the chat collection, the scheduled analysis and the on-demand
   analysis *)

MaxTime == 3

\* chats beyond the batch limit in the large store
MaxExtra == 1

\* Date.now() counts milliseconds; message timestamps count seconds
MsPerSec == 1000

\* .limit(30)
BatchLimit == 30

\* the documented number of concurrent analyses of a pass
ConcurrencyLimit == 3

\* Date.now()
DateNow == now * MsPerSec

SessionDocs ==
    [s \in {"s1", "s2"} |->
        IF s = "s1" THEN [exists |-> TRUE, refId |-> Some("p1")]
                    ELSE [exists |-> TRUE, refId |-> None]]

\* session collections: s1 is linked to a project; s2 has no refId, or is
\* not stored at all
SessionStores == {SessionDocs, [SessionDocs EXCEPT !["s2"].exists = FALSE]}

\* values of OLLAMA_TIMEOUT, in milliseconds
TimeoutValues == {MsPerSec, OllamaTimeoutDefault}

ChatKeys == {<<"s1", "c1">>, <<"s2", "c1">>}

\* chat ids of a large store
ChatIds ==
    <<"c1", "c2", "c3", "c4", "c5", "c6", "c7", "c8", "c9", "c10",
      "c11", "c12", "c13", "c14", "c15", "c16", "c17", "c18", "c19", "c20",
      "c21", "c22", "c23", "c24", "c25", "c26", "c27", "c28", "c29", "c30",
      "c31", "c32", "c33", "c34", "c35", "c36", "c37", "c38", "c39", "c40">>

NoChat ==
    [exists |-> FALSE, lastMessage |-> None, lastMessageTimestamp |-> None,
     deleted |-> None, deletedAt |-> <<>>,
     lastAnalysisTimestamp |-> None, analysis |-> None]

\* chat.lastMessage of ChatData, with message timestamps up to t seconds
LastMessageInputs(t) ==
    {None} \cup
    {Some([type |-> ty, body |-> b, timestamp |-> ts]) :
        ty \in {"chat", "e2e_notification"},
        b \in {None, Some(""), Some("hi")},
        ts \in {None, Some(0)} \cup {Some(x) : x \in 1..t}}

\* chat.lastMessage?.body || null
BodyOrNull(lm) == IF lm = None \/ FalsyStr(lm[1].body) THEN None ELSE lm[1].body

\* chat.lastMessage?.timestamp || null
TimestampOrNull(lm) ==
    IF lm = None \/ FalsyNum(lm[1].timestamp) THEN None ELSE lm[1].timestamp

\* chat.lastMessage?.type === 'e2e_notification'
IsE2ENotification(lm) == lm # None /\ lm[1].type = "e2e_notification"

\* Mutant: a save writes deletedAt: [] with $set
SaveChatDoc_ResetHistory(doc, lm) ==
    [exists                |-> TRUE,
     lastMessage           |-> BodyOrNull(lm),
     lastMessageTimestamp  |-> TimestampOrNull(lm),
     deleted               |-> IF IsE2ENotification(lm) THEN doc.deleted ELSE Some(FALSE),
     deletedAt             |-> <<>>,
     lastAnalysisTimestamp |-> doc.lastAnalysisTimestamp,
     analysis              |-> doc.analysis]

\* findOneAndUpdate(filter, {$set: chatData, $setOnInsert: {deletedAt: []}},
\* {upsert: true}) applied to the stored document
SaveChatDoc(doc, lm) ==
    [exists                |-> TRUE,
     lastMessage           |-> BodyOrNull(lm),
     lastMessageTimestamp  |-> TimestampOrNull(lm),
     deleted               |-> IF IsE2ENotification(lm) THEN doc.deleted ELSE Some(FALSE),
     deletedAt             |-> IF doc.exists THEN doc.deletedAt ELSE <<>>,
     lastAnalysisTimestamp |-> doc.lastAnalysisTimestamp,
     analysis              |-> doc.analysis]

\* BSON order of $lt: null sorts before every number
BsonLt(a, b) ==
    IF a = None THEN b # None
    ELSE b # None /\ a[1] < b[1]

\* lastMessage: {$exists: true, $nin: [null, '']}
HasLastMessage(doc) == doc.lastMessage # None /\ doc.lastMessage[1] # ""

\* Mutant: the operands of $lt swapped
NeedsAnalysis_Swapped(doc) ==
    /\ doc.exists
    /\ HasLastMessage(doc)
    /\ \/ doc.lastAnalysisTimestamp = None
       \/ BsonLt(doc.lastMessageTimestamp, doc.lastAnalysisTimestamp)

\* the filter of the scheduled job's find
NeedsAnalysis(doc) ==
    /\ doc.exists
    /\ HasLastMessage(doc)
    /\ \/ doc.lastAnalysisTimestamp = None
       \/ BsonLt(doc.lastAnalysisTimestamp, doc.lastMessageTimestamp)

\* sort key of .sort({lastMessageTimestamp: -1}): null sorts last
SortKey(doc) ==
    IF doc.lastMessageTimestamp = None THEN 0 - 1 ELSE doc.lastMessageTimestamp[1]

Min(a, b) == IF a < b THEN a ELSE b

\* the first n of the chats match of store c, most recent last message
\* first (ties in any order)
RECURSIVE SortedFirst(_, _, _)
SortedFirst(c, match, n) ==
    IF n = 0 \/ match = {} THEN {<<>>}
    ELSE LET top == {k \in match :
                        \A j \in match : SortKey(c[k]) >= SortKey(c[j])}
         IN UNION {{<<k>> \o rest : rest \in SortedFirst(c, match \ {k}, n - 1)} :
                      k \in top}

\* Mutant: find(...).sort(...) without .limit(30)
ActiveChats_NoLimit(c) ==
    LET match == {k \in DOMAIN c : NeedsAnalysis(c[k])}
    IN SortedFirst(c, match, Cardinality(match))

\* Mutant: find(...).limit(30) without the sort
ActiveChats_NoSort(c) ==
    LET match == {k \in DOMAIN c : NeedsAnalysis(c[k])}
        n == Min(BatchLimit, Cardinality(match))
        low == {k \in match : \A j \in match : SortKey(c[k]) <= SortKey(c[j])}
    IN UNION {{<<k>> \o rest : rest \in SortedFirst(c, match \ {k}, n - 1)} :
                 k \in low}

\* the results find(...).sort(...).limit(30) can return on store c
ActiveChats(c) ==
    LET match == {k \in DOMAIN c : NeedsAnalysis(c[k])}
    IN SortedFirst(c, match, Min(BatchLimit, Cardinality(match)))

\* f without its entry i; f with the entry i set to v
Without(f, i) == [j \in DOMAIN f \ {i} |-> f[j]]
With(f, i, v) == [j \in DOMAIN f \cup {i} |-> IF j = i THEN v ELSE f[j]]

\* an analyzeConversation(sessionId, chatId) call at its entry
NewCall ==
    [pc |-> "config", startTime |-> None, stamp |-> None, result |-> None,
     raced |-> FALSE]

\* how an analyzeConversation call settles: it throws, or returns v
Threw == [threw |-> TRUE, value |-> None]
Returned(v) == [threw |-> FALSE, value |-> Some(v)]

\* a pass of the scheduled job that has not started: batch is activeChats,
\* idx the last chat the loop has started, tasks the analyzeConversation
\* calls in flight (by position in batch), settled how the finished ones
\* ended
IdleRun ==
    [pc |-> "idle", caller |-> "cron", batch |-> <<>>, idx |-> 0,
     tasks |-> <<>>, settled |-> <<>>]

\* the controller's analyzeChat before any request
NoRequest == [IdleRun EXCEPT !.caller = "http"]

\* the chat of the i-th call of a pass
Candidate(run, i) == run.batch[i]

\* Mutant: every chat of the batch is started at once
StartLoop_AllAtOnce(batch) ==
    [IdleRun EXCEPT !.pc = "loop", !.batch = batch, !.idx = Len(batch),
                    !.tasks = [i \in 1..Len(batch) |-> NewCall]]

\* the for loop is entered: the first chat's analyzeConversation is called
\* and awaited
StartLoop(batch) ==
    [IdleRun EXCEPT !.pc = "loop", !.batch = batch, !.idx = 1,
                    !.tasks = With(<<>>, 1, NewCall)]

\* the awaited call has settled: the for loop calls analyzeConversation for
\* its next chat, or the pass (the request) ends
NextCandidate(run) ==
    IF run.idx < Len(run.batch)
    THEN [run EXCEPT !.idx = @ + 1, !.tasks = With(@, run.idx + 1, NewCall)]
    ELSE [run EXCEPT !.pc = "done"]

\* Mutant: no try/catch around the awaited call: an error leaves the loop
\* and the job
Settle_Rethrow(run, i, out) ==
    IF out.threw
    THEN [run EXCEPT !.pc = "raised", !.tasks = Without(@, i),
                     !.settled = With(@, i, out)]
    ELSE NextCandidate([run EXCEPT !.tasks = Without(@, i),
                                   !.settled = With(@, i, out)])

\* the i-th call settles with out; its caller goes on (the loop catches and
\* logs an error)
Settle(run, i, out) ==
    NextCandidate([run EXCEPT !.tasks = Without(@, i),
                              !.settled = With(@, i, out)])

\* a stored last message is newer than the one of doc
Newer(doc, new) ==
    /\ new.lastMessageTimestamp # None
    /\ \/ doc.lastMessageTimestamp = None
       \/ doc.lastMessageTimestamp[1] < new.lastMessageTimestamp[1]

\* WhatsappStorageService.saveChat(sessionId, chat)
saveChat(k, lm) ==
    LET new == SaveChatDoc(chats[k], lm) IN
    /\ chats' = [chats EXCEPT ![k] = new]
    /\ runs' = [r \in DOMAIN runs |->
                   [runs[r] EXCEPT !.tasks =
                       [i \in DOMAIN @ |->
                           IF /\ @[i].pc \in {"inference", "write"}
                              /\ Candidate(runs[r], i) = k
                              /\ Newer(chats[k], new)
                           THEN [@[i] EXCEPT !.raced = TRUE]
                           ELSE @[i]]]]
    /\ UNCHANGED <<sessions, now, ollamaTimeout>>
    /\ UNCHANGED <<alertVars, inferenceVars, storageVars>>

SaveChat == \E k \in DOMAIN chats : \E lm \in LastMessageInputs(now) : saveChat(k, lm)

\* @Cron(EVERY_10_MINUTES) analyseConvesation: the query, and the entry of
\* the loop; when the find throws, the outer catch logs it and the job
\* returns with nothing done
analyseConvesation(r) ==
    /\ runs[r].caller = "cron"
    /\ runs[r].pc \in {"idle", "done"}
    /\ \/ \E batch \in ActiveChats(chats) :
             runs' = [runs EXCEPT ![r] =
                         IF Len(batch) > 0 THEN StartLoop(batch)
                         ELSE [IdleRun EXCEPT !.pc = "done"]]
       \/ runs' = [runs EXCEPT ![r] = IdleRun]
    /\ UNCHANGED <<sessions, chats, now, ollamaTimeout>>
    /\ UNCHANGED <<alertVars, inferenceVars, storageVars>>

\* POST sessions/:sessionId/chats/:chatId/analyze
analyzeChat(r, k) ==
    /\ runs[r].caller = "http"
    /\ runs[r].pc \in {"idle", "done"}
    /\ runs' = [runs EXCEPT ![r] =
                   [NoRequest EXCEPT !.pc = "call", !.batch = <<k>>, !.idx = 1,
                                     !.tasks = With(<<>>, 1, NewCall)]]
    /\ UNCHANGED <<sessions, chats, now, ollamaTimeout>>
    /\ UNCHANGED <<alertVars, inferenceVars, storageVars>>

\* Mutant: a session without refId is not turned down
NoProject_Never(sid) == FALSE

\* getProjectConfig(sessionId) returns null: no session, or no refId
NoProject(sid) ==
    \/ sid \notin DOMAIN sessions
    \/ ~sessions[sid].exists
    \/ sessions[sid].refId = None

\* getProjectConfig(sessionId) up to its HTTP request: the session lookup
\* throws, or it answers; for null, analyzeConversation throws
getProjectConfig(r, i) ==
    /\ i \in DOMAIN runs[r].tasks
    /\ runs[r].tasks[i].pc = "config"
    /\ \E ok \in BOOLEAN :
          runs' = [runs EXCEPT ![r] =
                      IF ~ok \/ NoProject(Candidate(runs[r], i)[1])
                      THEN Settle(@, i, Threw)
                      ELSE [@ EXCEPT !.tasks[i].pc = "project"]]
    /\ UNCHANGED <<sessions, chats, now, ollamaTimeout>>
    /\ UNCHANGED <<alertVars, inferenceVars, storageVars>>

\* httpService.getProjectByGroupId(projectId) answers, or throws
getProjectByGroupId(r, i) ==
    /\ i \in DOMAIN runs[r].tasks
    /\ runs[r].tasks[i].pc = "project"
    /\ \E ok \in BOOLEAN :
          runs' = [runs EXCEPT ![r] =
                      IF ok THEN [@ EXCEPT !.tasks[i].pc = "messages"]
                      ELSE Settle(@, i, Threw)]
    /\ UNCHANGED <<sessions, chats, now, ollamaTimeout>>
    /\ UNCHANGED <<alertVars, inferenceVars, storageVars>>

\* Mutant: the update is stamped one second ahead of the clock
IssueUpdate_Ahead(call, result) ==
    [call EXCEPT !.pc = "write", !.stamp = Some(DateNow + MsPerSec),
                 !.result = Some(result)]

\* the update analyzeConversation issues: $set of analysis and of
\* lastAnalysisTimestamp: Date.now()
IssueUpdate(call, result) ==
    [call EXCEPT !.pc = "write", !.stamp = Some(DateNow), !.result = Some(result)]

\* the value analyzeConversation returns
Envelope(k, result) == [success |-> TRUE, chatId |-> k[2], analysis |-> result]

\* Mutant: the error of the find is swallowed and an object is returned
MessagesThrow_Swallowed(run, i) ==
    Settle(run, i, Returned(Envelope(Candidate(run, i), "no_messages")))

\* the find of the messages throws: analyzeConversation rethrows
MessagesThrow(run, i) == Settle(run, i, Threw)

\* OllamaService.getConversationMessages: the find throws, finds nothing
\* (the analysis is then the object {error}), or finds messages, and the
\* request to the model is sent (startTime = Date.now())
getConversationMessages(r, i) ==
    /\ i \in DOMAIN runs[r].tasks
    /\ runs[r].tasks[i].pc = "messages"
    /\ \E out \in {"throws", "empty", "some"} :
          runs' = [runs EXCEPT ![r] =
                      CASE out = "throws" -> MessagesThrow(@, i)
                        [] out = "empty" ->
                             [@ EXCEPT !.tasks[i] = IssueUpdate(@, "no_messages")]
                        [] out = "some" ->
                             [@ EXCEPT !.tasks[i].pc = "inference",
                                       !.tasks[i].startTime = Some(DateNow)]]
    /\ UNCHANGED <<sessions, chats, now, ollamaTimeout>>
    /\ UNCHANGED <<alertVars, inferenceVars, storageVars>>

\* ollama.chat resolves (its content parses, or the fallback object is
\* returned) or throws; Promise.race has no other contender
ollamaChat(r, i) ==
    /\ i \in DOMAIN runs[r].tasks
    /\ runs[r].tasks[i].pc = "inference"
    /\ \E out \in {"throws", "parsed", "fallback"} :
          runs' = [runs EXCEPT ![r] =
                      IF out = "throws" THEN Settle(@, i, Threw)
                      ELSE [@ EXCEPT !.tasks[i] = IssueUpdate(@, out)]]
    /\ UNCHANGED <<sessions, chats, now, ollamaTimeout>>
    /\ UNCHANGED <<alertVars, inferenceVars, storageVars>>

\* Mutant: the fallback object of an unparseable reply is not stored
UpdateDoc_SkipFallback(c, k, call) ==
    IF c[k].exists /\ call.result # Some("fallback")
    THEN [c EXCEPT ![k].analysis = call.result,
                   ![k].lastAnalysisTimestamp = call.stamp]
    ELSE c

\* Mutant: the filter of the update names the chatId only
UpdateDoc_ByChatId(c, k, call) ==
    [j \in DOMAIN c |->
        IF j[2] = k[2] /\ c[j].exists
        THEN [c[j] EXCEPT !.analysis = call.result,
                          !.lastAnalysisTimestamp = call.stamp]
        ELSE c[j]]

\* Mutant: the update is applied only to a chat that has no analysis yet
UpdateDoc_OnlyFirst(c, k, call) ==
    IF c[k].exists /\ c[k].lastAnalysisTimestamp = None
    THEN [c EXCEPT ![k].analysis = call.result,
                   ![k].lastAnalysisTimestamp = call.stamp]
    ELSE c

\* updateOne({chatId, sessionId}, {$set: {analysis, lastAnalysisTimestamp}})
\* applied to store c: the document is changed if there is one
UpdateDoc(c, k, call) ==
    IF c[k].exists
    THEN [c EXCEPT ![k].analysis = call.result,
                   ![k].lastAnalysisTimestamp = call.stamp]
    ELSE c

\* whatsAppChatModel.updateOne(...) is applied and analyzeConversation
\* returns {success: true, chatId, analysis}, or the update throws
updateOne(r, i) ==
    /\ i \in DOMAIN runs[r].tasks
    /\ runs[r].tasks[i].pc = "write"
    /\ LET k == Candidate(runs[r], i)
           call == runs[r].tasks[i]
       IN \E ok \in BOOLEAN :
             /\ chats' = IF ok THEN UpdateDoc(chats, k, call) ELSE chats
             /\ runs' = [runs EXCEPT ![r] =
                            Settle(@, i, IF ok THEN Returned(Envelope(k, call.result[1]))
                                         ELSE Threw)]
    /\ UNCHANGED <<sessions, now, ollamaTimeout>>
    /\ UNCHANGED <<alertVars, inferenceVars, storageVars>>

\* time passes
Tick ==
    /\ now < MaxTime
    /\ now' = now + 1
    /\ UNCHANGED <<sessions, chats, runs, ollamaTimeout>>
    /\ UNCHANGED <<alertVars, inferenceVars, storageVars>>

\* the alert consumer at rest
AlertsAtRest ==
    /\ payload = [pattern |-> "disconnected", session |-> None, sessionId |-> None,
                  messageId |-> None, chatId |-> None, timestamp |-> None,
                  message |-> None]
    /\ qstate = "acked"
    /\ hpc = "idle"
    /\ trace = <<>>
    /\ pending = None
    /\ alerts = <<>>
    /\ origin = <<>>
    /\ deliveries = 0
    /\ acks = 0
    /\ nacks = 0
    /\ rejects = 0
    /\ crashes = 0

\* one pass of the scheduled job at a time, over an empty store that
\* saveChat fills
AnalysisInit ==
    /\ sessions = SessionDocs
    /\ chats = [k \in ChatKeys |-> NoChat]
    /\ runs = [r \in {1} |-> IdleRun]
    /\ now = 1
    /\ ollamaTimeout = OllamaTimeoutDefault
    /\ AlertsAtRest
    /\ InferenceAtRest
    /\ StorageAtRest

AnalysisNext ==
    \/ SaveChat
    \/ \E r \in DOMAIN runs : analyseConvesation(r)
    \/ \E r \in DOMAIN runs : \E i \in DOMAIN runs[r].tasks : getProjectConfig(r, i)
    \/ \E r \in DOMAIN runs : \E i \in DOMAIN runs[r].tasks : getProjectByGroupId(r, i)
    \/ \E r \in DOMAIN runs : \E i \in DOMAIN runs[r].tasks : getConversationMessages(r, i)
    \/ \E r \in DOMAIN runs : \E i \in DOMAIN runs[r].tasks : ollamaChat(r, i)
    \/ \E r \in DOMAIN runs : \E i \in DOMAIN runs[r].tasks : updateOne(r, i)
    \/ Tick

AnalysisSpec == AnalysisInit /\ [][AnalysisNext]_vars

\* the chat document after its first saveChat with a text message sent at t
FirstSaved(t) ==
    SaveChatDoc(NoChat, Some([type |-> "chat", body |-> Some("hi"),
                              timestamp |-> Some(t)]))

\* a chat document that has been analyzed once
Analyzed(doc) ==
    [doc EXCEPT !.analysis = Some("parsed"), !.lastAnalysisTimestamp = Some(MsPerSec)]

\* documents of the chat (s1, c1) of a large store: not stored; saved with
\* no last message, with an old or with the most recent last message; not
\* analyzed or analyzed before that save
FirstDocs ==
    {NoChat} \cup
    {SaveChatDoc(d, lm) :
        d \in {NoChat, Analyzed(FirstSaved(1))},
        lm \in {None,
                Some([type |-> "chat", body |-> Some("hi"), timestamp |-> Some(1)]),
                Some([type |-> "chat", body |-> Some("hi"),
                      timestamp |-> Some(BatchLimit + MaxExtra + 2)])}}

\* stores with about BatchLimit chats: n never analyzed chats of session s2,
\* the i-th with its last message sent at i + 1, and the chat (s1, c1)
LargeStores ==
    {[k \in {<<"s1", "c1">>} \cup {<<"s2", ChatIds[i]>> : i \in 1..n} |->
         IF k = <<"s1", "c1">> THEN d
         ELSE FirstSaved(1 + CHOOSE i \in 1..n : ChatIds[i] = k[2])] :
        n \in (BatchLimit - 1)..(BatchLimit + MaxExtra), d \in FirstDocs}

\* one pass of the scheduled job at a time over a large store
BatchInit ==
    /\ sessions = SessionDocs
    /\ chats \in LargeStores
    /\ runs = [r \in {1} |-> IdleRun]
    /\ now = 1
    /\ ollamaTimeout = OllamaTimeoutDefault
    /\ AlertsAtRest
    /\ InferenceAtRest
    /\ StorageAtRest

BatchNext ==
    \/ \E r \in DOMAIN runs : analyseConvesation(r)
    \/ \E r \in DOMAIN runs : \E i \in DOMAIN runs[r].tasks : getProjectConfig(r, i)
    \/ \E r \in DOMAIN runs : \E i \in DOMAIN runs[r].tasks : getProjectByGroupId(r, i)
    \/ \E r \in DOMAIN runs : \E i \in DOMAIN runs[r].tasks : getConversationMessages(r, i)
    \/ \E r \in DOMAIN runs : \E i \in DOMAIN runs[r].tasks : ollamaChat(r, i)
    \/ \E r \in DOMAIN runs : \E i \in DOMAIN runs[r].tasks : updateOne(r, i)

BatchSpec == BatchInit /\ [][BatchNext]_vars

\* on-demand requests, one at a time, over a store of chats that are not
\* stored, saved, or saved and analyzed
OnDemandInit ==
    /\ sessions \in SessionStores
    /\ chats \in [ChatKeys -> {NoChat, FirstSaved(1), Analyzed(FirstSaved(1))}]
    /\ runs = [r \in {1} |-> NoRequest]
    /\ now = 1
    /\ ollamaTimeout \in TimeoutValues
    /\ AlertsAtRest
    /\ InferenceAtRest
    /\ StorageAtRest

OnDemandNext ==
    \/ \E r \in DOMAIN runs : \E k \in DOMAIN chats : analyzeChat(r, k)
    \/ \E r \in DOMAIN runs : \E i \in DOMAIN runs[r].tasks : getProjectConfig(r, i)
    \/ \E r \in DOMAIN runs : \E i \in DOMAIN runs[r].tasks : getProjectByGroupId(r, i)
    \/ \E r \in DOMAIN runs : \E i \in DOMAIN runs[r].tasks : getConversationMessages(r, i)
    \/ \E r \in DOMAIN runs : \E i \in DOMAIN runs[r].tasks : ollamaChat(r, i)
    \/ \E r \in DOMAIN runs : \E i \in DOMAIN runs[r].tasks : updateOne(r, i)
    \/ Tick

OnDemandSpec == OnDemandInit /\ [][OnDemandNext]_vars

\* two passes of the scheduled job that may overlap (a tick fires while the
\* previous pass is still running), over a store of chats saved before
OverlapInit ==
    /\ sessions = SessionDocs
    /\ chats \in [ChatKeys -> {NoChat, FirstSaved(1)}]
    /\ runs = [r \in {1, 2} |-> IdleRun]
    /\ now = 1
    /\ ollamaTimeout = OllamaTimeoutDefault
    /\ AlertsAtRest
    /\ InferenceAtRest
    /\ StorageAtRest

OverlapNext ==
    \/ \E r \in DOMAIN runs : analyseConvesation(r)
    \/ \E r \in DOMAIN runs : \E i \in DOMAIN runs[r].tasks : getProjectConfig(r, i)
    \/ \E r \in DOMAIN runs : \E i \in DOMAIN runs[r].tasks : getProjectByGroupId(r, i)
    \/ \E r \in DOMAIN runs : \E i \in DOMAIN runs[r].tasks : getConversationMessages(r, i)
    \/ \E r \in DOMAIN runs : \E i \in DOMAIN runs[r].tasks : ollamaChat(r, i)
    \/ \E r \in DOMAIN runs : \E i \in DOMAIN runs[r].tasks : updateOne(r, i)
    \/ Tick

OverlapSpec == OverlapInit /\ [][OverlapNext]_vars


----------------------------------------------------------------------------
(* Part 3: OllamaService in detail: the reply of the model and its parsing,
   the transcript and the prompt *)

\* length of the reply texts that are enumerated in full
MaxReplyLen == 4

\* length of the JSON documents that are wrapped in code fences
MaxJsonLen == 3

\* the session, chat and pass collections at rest
AnalysisAtRest ==
    /\ sessions = SessionDocs
    /\ chats = [k \in ChatKeys |-> NoChat]
    /\ runs = [r \in {1} |-> IdleRun]
    /\ now = 1
    /\ ollamaTimeout = OllamaTimeoutDefault

\* A text is a sequence of pieces: three backticks ("fence"), the word json,
\* a line feed, a space, one of two JSON values, or a character of prose
Pieces == {"fence", "json", "nl", "sp", "{}", "[1]", "x"}

JsonValues == {"{}", "[1]"}

IsSpace(t) == t \in {"nl", "sp"}

RECURSIVE TrimLeft(_)
TrimLeft(s) == IF s # <<>> /\ IsSpace(Head(s)) THEN TrimLeft(Tail(s)) ELSE s

RECURSIVE TrimRight(_)
TrimRight(s) ==
    IF s # <<>> /\ IsSpace(s[Len(s)]) THEN TrimRight(SubSeq(s, 1, Len(s) - 1)) ELSE s

\* String.prototype.trim()
Trim(s) == TrimRight(TrimLeft(s))

\* JSON.parse(text): the value of a document (one value, white space around
\* it allowed), or None for a SyntaxError
JsonParse(s) ==
    LET t == Trim(s)
    IN IF Len(t) = 1 /\ t[1] \in JsonValues THEN Some(t[1]) ELSE None

\* s starts with the pieces of p
StartsWith(s, p) == Len(s) >= Len(p) /\ SubSeq(s, 1, Len(p)) = p

\* Mutant: only the closing fence is removed
RECURSIVE StripFences_CloseOnly(_)
StripFences_CloseOnly(s) ==
    IF s = <<>> THEN <<>>
    ELSE IF StartsWith(s, <<"nl", "fence">>)
    THEN StripFences_CloseOnly(SubSeq(s, 3, Len(s)))
    ELSE <<Head(s)>> \o StripFences_CloseOnly(Tail(s))

\* analysisResult.replace(/(fence)json\n|\n(fence)/g, ''), where (fence)
\* stands for three backticks: every match, found from left to right, is
\* removed
RECURSIVE StripFences(_)
StripFences(s) ==
    IF s = <<>> THEN <<>>
    ELSE IF StartsWith(s, <<"fence", "json", "nl">>)
    THEN StripFences(SubSeq(s, 4, Len(s)))
    ELSE IF StartsWith(s, <<"nl", "fence">>)
    THEN StripFences(SubSeq(s, 3, Len(s)))
    ELSE <<Head(s)>> \o StripFences(Tail(s))

\* the object a reply parses to
ParsedObject(v) == [json |-> Some(v), raw |-> None, error |-> None]

\* { raw: analysisResult, error: 'Failed to parse JSON' }
Fallback(text) ==
    [json |-> None, raw |-> Some(text), error |-> Some("Failed to parse JSON")]

\* response.message?.content || '{}'
ContentOrEmptyObject(content) ==
    IF content = None \/ content[1] = <<>> THEN <<"{}">> ELSE content[1]

\* Mutant: the second SyntaxError is not caught
ParseReply_Rethrow(content) ==
    LET text == ContentOrEmptyObject(content)
        parsedResult == JsonParse(text)
        parsedCleanResult == JsonParse(Trim(StripFences(text)))
    IN IF parsedResult # None THEN Returned(ParsedObject(parsedResult[1]))
       ELSE IF parsedCleanResult # None THEN Returned(ParsedObject(parsedCleanResult[1]))
       ELSE Threw

\* OllamaService.analyzeConversation from the reply on: JSON.parse, on a
\* SyntaxError JSON.parse of the text without fences, on a second SyntaxError
\* the fallback object
ParseReply(content) ==
    LET text == ContentOrEmptyObject(content)
        parsedResult == JsonParse(text)
        parsedCleanResult == JsonParse(Trim(StripFences(text)))
    IN IF parsedResult # None THEN Returned(ParsedObject(parsedResult[1]))
       ELSE IF parsedCleanResult # None THEN Returned(ParsedObject(parsedCleanResult[1]))
       ELSE Returned(Fallback(text))

\* the texts of at most n pieces
Texts(n) == UNION {[1..m -> Pieces] : m \in 0..n}

\* the JSON documents of at most MaxJsonLen pieces
JsonTexts ==
    {s \in UNION {[1..m -> JsonValues \cup {"nl", "sp"}] : m \in 1..MaxJsonLen} :
        JsonParse(s) # None}

\* a JSON document in a Markdown code fence: three backticks and json, line
\* feed, the document, line feed, three backticks
Fenced(j) == <<"fence", "json", "nl">> \o j \o <<"nl", "fence">>

\* the replies of the model: no content, a short text, or a fenced JSON
\* document, with or without a line feed after the closing fence
ReplyInputs ==
    {None} \cup {Some(s) : s \in Texts(MaxReplyLen)}
           \cup {Some(Fenced(j) \o t) : j \in JsonTexts, t \in {<<>>, <<"nl">>}}

\* ollama.chat has resolved with this content: the reply is parsed and
\* analyzeConversation returns
parseReply ==
    /\ analysisResult = None
    /\ analysisResult' = Some(ParseReply(reply))
    /\ UNCHANGED <<messages, maxMessagesForAnalysis, projectConfig, transcript,
                   prompts, reply>>
    /\ UNCHANGED <<alertVars, analysisVars, storageVars>>

ReplyInit ==
    /\ reply \in ReplyInputs
    /\ analysisResult = None
    /\ messages = <<>>
    /\ maxMessagesForAnalysis = MaxMessagesDefault
    /\ projectConfig = None
    /\ transcript = None
    /\ prompts = <<>>
    /\ AnalysisAtRest
    /\ AlertsAtRest
    /\ StorageAtRest

ReplyNext == parseReply

ReplySpec == ReplyInit /\ [][ReplyNext]_vars

----------------------------------------------------------------------------
(* The message collection and the transcript of a conversation *)

\* largest value of MAX_MESSAGES_FOR_ANALYSIS in the transcript model
MaxLimit == 2

MessageKeys == {<<"s1", "m1">>, <<"s1", "m2">>, <<"s1", "m3">>, <<"s2", "m1">>}

\* no document for the key k = <<sessionId, messageId>>
NoMessage(k) ==
    [exists |-> FALSE, sessionId |-> k[1], messageId |-> k[2], chatId |-> "",
     body |-> "", fromMe |-> FALSE, timestamp |-> 0, isDeleted |-> FALSE,
     deletedAt |-> None, deletedBy |-> None, edition |-> <<>>]

\* messageData of saveMessage, and the $set of saveMessages: the document a
\* save writes
MessageData(k, chatId, body, fromMe, timestamp) ==
    [exists |-> TRUE, sessionId |-> k[1], messageId |-> k[2], chatId |-> chatId,
     body |-> body, fromMe |-> fromMe, timestamp |-> timestamp,
     isDeleted |-> FALSE, deletedAt |-> None, deletedBy |-> None,
     edition |-> <<>>]

\* what is stored of a message of session s1: nothing, or its chat and the
\* time it was sent
Slots == {<<"", 0>>} \cup ({"c1", "c2"} \X (1..2))

\* message collections: each of the three messages of session s1 is not
\* stored, or was saved in chat c1 or c2, sent at 1 or 2; the message of
\* session s2 is in its chat c1
MessageStores ==
    {[k \in MessageKeys |->
         IF k[1] = "s2" THEN MessageData(k, "c1", "hi", FALSE, 2)
         ELSE IF g[k[2]] = <<"", 0>> THEN NoMessage(k)
         ELSE MessageData(k, g[k[2]][1], "hi", FALSE, g[k[2]][2])] :
        g \in [{"m1", "m2", "m3"} -> Slots]}

\* Mutant: the filter does not look at isDeleted
MatchingMessages_WithDeleted(store, chatId, sessionId) ==
    {k \in DOMAIN store :
        /\ store[k].exists
        /\ store[k].chatId = chatId
        /\ store[k].sessionId = sessionId}

\* find({ chatId, sessionId, isDeleted: false })
MatchingMessages(store, chatId, sessionId) ==
    {k \in DOMAIN store :
        /\ store[k].exists
        /\ store[k].chatId = chatId
        /\ store[k].sessionId = sessionId
        /\ store[k].isDeleted = FALSE}

\* .sort({ timestamp: -1 }).limit(n): the first n of the messages match,
\* most recent first (ties in any order)
RECURSIVE NewestFirst(_, _, _)
NewestFirst(store, match, n) ==
    IF n = 0 \/ match = {} THEN {<<>>}
    ELSE LET top == {k \in match :
                        \A j \in match : store[k].timestamp >= store[j].timestamp}
         IN UNION {{<<store[k]>> \o rest :
                       rest \in NewestFirst(store, match \ {k}, n - 1)} : k \in top}

\* messages.reverse()
Reverse(s) == [i \in 1..Len(s) |-> s[Len(s) + 1 - i]]

\* what getConversationMessages(chatId, sessionId) can return on a store
ChronologicalMessages(store, chatId, sessionId) ==
    LET match == MatchingMessages(store, chatId, sessionId)
    IN {Reverse(m) :
           m \in NewestFirst(store, match,
                             Min(maxMessagesForAnalysis, Cardinality(match)))}

\* OllamaService.getConversationMessages(chatId, sessionId): the find throws
\* and the error is rethrown, or the messages found are returned
conversationMessages(chatId, sessionId) ==
    /\ \E out \in {Threw} \cup
                  {Returned(m) : m \in ChronologicalMessages(messages, chatId, sessionId)} :
          transcript' = Some([chatId |-> chatId, sessionId |-> sessionId, out |-> out])
    /\ UNCHANGED <<messages, maxMessagesForAnalysis, projectConfig, prompts,
                   reply, analysisResult>>
    /\ UNCHANGED <<alertVars, analysisVars, storageVars>>

\* WhatsappStorageService.markMessageAsDeleted(sessionId, messageId, deletedBy)
markMessageAsDeleted(k, deletedBy) ==
    /\ messages' = IF messages[k].exists
                   THEN [messages EXCEPT ![k].isDeleted = TRUE,
                                         ![k].deletedAt = Some(now),
                                         ![k].deletedBy = Some(deletedBy)]
                   ELSE messages
    /\ UNCHANGED <<maxMessagesForAnalysis, projectConfig, transcript, prompts,
                   reply, analysisResult>>
    /\ UNCHANGED <<alertVars, analysisVars, storageVars>>

TranscriptInit ==
    /\ messages \in MessageStores
    /\ maxMessagesForAnalysis \in 1..MaxLimit
    /\ transcript = None
    /\ projectConfig = None
    /\ prompts = <<>>
    /\ reply = None
    /\ analysisResult = None
    /\ AnalysisAtRest
    /\ AlertsAtRest
    /\ StorageAtRest

TranscriptNext ==
    \/ \E c \in {"c1", "c2"} : \E sid \in {"s1", "s2"} : conversationMessages(c, sid)
    \/ \E k \in MessageKeys : markMessageAsDeleted(k, "everyone")

TranscriptSpec == TranscriptInit /\ [][TranscriptNext]_vars

----------------------------------------------------------------------------
(* The prompt: formatMessagesForLLM and buildPrompt. A text is a sequence of
   pieces *)

\* calls of buildPrompt on the same inputs
MaxCalls == 2

\* ${idx + 1}: the number of an instruction
Digits == <<"1", "2", "3", "4">>

\* ProjectConfig values: description and domain empty or not, no or two
\* instructions, no or one field, with or without output_format and
\* example_analysis
ProjectConfigs ==
    [name             : {"sales"},
     description      : {"", "d"},
     domain           : {"", "dom"},
     instructions     : {<<>>, <<"i1", "i2">>},
     fields           : {<<>>, << <<"f", "v">> >>},
     output_format    : {None, Some("fmt")},
     example_analysis : {<<>>, <<"ex">>}]

\* the messages a transcript is made of: of the customer, of the agent, and
\* one without body
TranscriptMessages ==
    {[MessageData(<<"s1", "m1">>, "c1", "Hi", FALSE, 1) EXCEPT !.body = b, !.fromMe = f] :
        b \in {"", "Hi"}, f \in BOOLEAN} \ 
    {[MessageData(<<"s1", "m1">>, "c1", "Hi", FALSE, 1) EXCEPT !.body = "", !.fromMe = TRUE]}

\* the non-empty message lists handed to formatMessagesForLLM
TranscriptInputs == UNION {[1..n -> TranscriptMessages] : n \in 1..2}

\* one message as formatMessagesForLLM prints it
FormatMessage(msg) ==
    <<"[", IF msg.fromMe THEN "Agent" ELSE "Customer", ": ",
      IF msg.body = "" THEN "[Media or empty message]" ELSE msg.body, "]">>

\* lines.join(sep)
RECURSIVE Join(_, _)
Join(lines, sep) ==
    IF lines = <<>> THEN <<>>
    ELSE IF Len(lines) = 1 THEN lines[1]
    ELSE lines[1] \o sep \o Join(Tail(lines), sep)

\* OllamaService.formatMessagesForLLM(messages)
FormatMessagesForLLM(msgs) ==
    Join([i \in 1..Len(msgs) |-> FormatMessage(msgs[i])], <<"nl">>)

\* Mutant: the prompt names the time it was built at
BuildPrompt_Dated(config, conversation) ==
    <<"You are an AI agent configured for: ", config.name, "at", Digits[now], "nl", "nl">>
    \o <<"Conversation to analyze:", "nl">> \o conversation

\* OllamaService.buildPrompt(projectConfig, conversation), config being
\* projectConfig.config
BuildPrompt(config, conversation) ==
    <<"You are an AI agent configured for: ", config.name, "nl", "nl">>
    \o (IF config.description # ""
        THEN <<"Description: ", config.description, "nl", "nl">> ELSE <<>>)
    \o (IF config.domain # ""
        THEN <<"Domain: ", config.domain, "nl", "nl">> ELSE <<>>)
    \o (IF Len(config.instructions) > 0
        THEN <<"Instructions:", "nl">>
             \o Join([i \in 1..Len(config.instructions) |->
                         <<Digits[i], ". ", config.instructions[i]>>], <<"nl">>)
             \o <<"nl", "nl">>
        ELSE <<>>)
    \o (IF Len(config.fields) > 0
        THEN <<"Fields to analyze:", "nl">>
             \o Join([i \in 1..Len(config.fields) |->
                         <<"- ", config.fields[i][1], ": ", config.fields[i][2]>>],
                     <<"nl">>)
             \o <<"nl", "nl">>
        ELSE <<>>)
    \o (IF config.output_format # None
        THEN <<"Output Format: ", config.output_format[1], "nl", "nl">> ELSE <<>>)
    \o (IF Len(config.example_analysis) > 0
        THEN <<"Example Analysis:", "nl">> \o config.example_analysis \o <<"nl", "nl">>
        ELSE <<>>)
    \o <<"nl", "---", "nl", "nl", "Conversation to analyze:", "nl", "nl">>
    \o conversation
    \o <<"nl", "nl", "---", "nl", "nl",
         "Please analyze this conversation according to the configuration above. ",
         "IMPORTANT: Return ONLY a valid JSON object matching the Output Format. ",
         "Do not include any markdown formatting or explanation.">>

\* OllamaService.analyzeConversation from the messages to the prompt:
\* formatMessagesForLLM, then buildPrompt
buildPrompt ==
    /\ Len(prompts) < MaxCalls
    /\ LET msgs == transcript[1].out.value[1]
       IN prompts' = Append(prompts,
                        [config |-> projectConfig[1].config, messages |-> msgs,
                         at |-> now,
                         text |-> BuildPrompt(projectConfig[1].config,
                                              FormatMessagesForLLM(msgs))])
    /\ UNCHANGED <<messages, maxMessagesForAnalysis, projectConfig, transcript,
                   reply, analysisResult>>
    /\ UNCHANGED <<alertVars, analysisVars, storageVars>>

PromptInit ==
    /\ projectConfig \in {Some([title |-> "p1", config |-> c]) : c \in ProjectConfigs}
    /\ transcript \in {Some([chatId |-> "c1", sessionId |-> "s1", out |-> Returned(m)]) :
                          m \in TranscriptInputs}
    /\ prompts = <<>>
    /\ messages = <<>>
    /\ maxMessagesForAnalysis = MaxMessagesDefault
    /\ reply = None
    /\ analysisResult = None
    /\ AnalysisAtRest
    /\ AlertsAtRest
    /\ StorageAtRest

PromptNext ==
    \/ buildPrompt
    \/ Tick

PromptSpec == PromptInit /\ [][PromptNext]_vars

----------------------------------------------------------------------------
(* The read state of the alerts: AlertsService.markAsRead and its siblings.
   The _id of an alert is its position in the collection *)

\* the ids a client may name: those of the alerts there can be (the earlier
\* one and the one of the message), and one more
AlertIds == 1..3

\* payloads of the documented shape for session s1, with or without the
\* optional fields
SessionPayloads ==
    {p \in Payloads : p.session = Some("oid1") /\ p.sessionId = Some("s1")
                      /\ p.messageId # Some("") /\ p.chatId # Some("")
                      /\ p.timestamp # Some(0)}

\* an alert of session s2, created before
EarlierAlert ==
    createDisconnectedAlert(
        [pattern |-> "disconnected", session |-> Some("oid2"), sessionId |-> Some("s2"),
         messageId |-> None, chatId |-> None, timestamp |-> None, message |-> None])

\* Mutant: marking as read also blanks the message of the alert
MarkRead_Blank(a) == [a EXCEPT !.isRead = TRUE, !.readAt = Some(now), !.message = None]

\* the update { isRead: true, readAt: new Date() } applied to an alert
MarkRead(a) == [a EXCEPT !.isRead = TRUE, !.readAt = Some(now)]

\* updateMany(filter, update): every alert whose id is in ids is updated
MarkAll(ids) ==
    /\ alerts' = [i \in DOMAIN alerts |-> IF i \in ids THEN MarkRead(alerts[i]) ELSE alerts[i]]
    /\ UNCHANGED <<payload, qstate, hpc, trace, pending, origin, deliveries,
                   acks, nacks, rejects, crashes>>
    /\ UNCHANGED <<analysisVars, inferenceVars, storageVars>>

\* AlertsService.markAsRead(alertId): findByIdAndUpdate
markAsRead(alertId) == MarkAll({alertId} \cap DOMAIN alerts)

\* AlertsService.markMultipleAsRead(alertIds): _id: { $in: objectIds }
markMultipleAsRead(alertIds) == MarkAll(alertIds \cap DOMAIN alerts)

\* AlertsService.markAllSessionAlertsAsRead(sessionId): { sessionId, isRead: false }
markAllSessionAlertsAsRead(sessionId) ==
    MarkAll({i \in DOMAIN alerts :
                alerts[i].sessionId = Some(sessionId) /\ alerts[i].isRead = FALSE})

\* AlertsService.markAllAsRead(): { isRead: false }
markAllAsRead == MarkAll({i \in DOMAIN alerts : alerts[i].isRead = FALSE})

\* one queue message for session s1, the collection holding an alert of
\* session s2
AlertReadInit ==
    /\ payload \in SessionPayloads
    /\ qstate = "ready"
    /\ hpc = "idle"
    /\ trace = <<>>
    /\ pending = None
    /\ alerts = <<EarlierAlert>>
    /\ origin = <<0>>
    /\ deliveries = 0
    /\ acks = 0
    /\ nacks = 0
    /\ rejects = 0
    /\ crashes = 0
    /\ AnalysisAtRest
    /\ InferenceAtRest
    /\ StorageAtRest

AlertReadNext ==
    \/ handleDisconnectedAlert
    \/ handleMessageDeletedAlert
    \/ handleMessageEditedAlert
    \/ handleChatRemovedAlert
    \/ CreateCommit
    \/ AckAfterCreate
    \/ CreateThrows
    \/ \E id \in AlertIds : markAsRead(id)
    \/ \E ids \in SUBSET AlertIds : markMultipleAsRead(ids)
    \/ \E sid \in {"s1", "s2"} : markAllSessionAlertsAsRead(sid)
    \/ markAllAsRead
    \/ Tick

AlertReadSpec == AlertReadInit /\ [][AlertReadNext]_vars

----------------------------------------------------------------------------
(* The storage operations on a message: saveMessage, saveMessages,
   updateMessageEdition and markMessageAsDeleted, called one after the other *)

\* longest edition history in the model
MaxEdits == 2

\* the messages the operations are called for
EditedKeys == {<<"s1", "m1">>, <<"s1", "m2">>}

Bodies == {"", "a"}

\* MessageData as the client hands it over: id._serialized, id.remote, from,
\* to, body, fromMe, timestamp
ClientMessages ==
    {[id |-> k[2], remote |-> "c1", from |-> "c1", to |-> "me", body |-> b,
      fromMe |-> FALSE, timestamp |-> 1] : k \in EditedKeys, b \in Bodies}

\* chatId || message.id.remote || message.from || message.to
MessageChatId(chatId, message) ==
    IF chatId # "" THEN chatId
    ELSE IF message.remote # "" THEN message.remote
    ELSE IF message.from # "" THEN message.from
    ELSE message.to

\* Mutant: a save of a stored message keeps its edition history
SavedMessage_KeepEdition(store, sessionId, message, chatId) ==
    [MessageData(<<sessionId, message.id>>, MessageChatId(chatId, message),
                 message.body, message.fromMe, message.timestamp)
        EXCEPT !.edition = store[<<sessionId, message.id>>].edition]

\* the document after create(messageData), after updateOne($set: messageData)
\* and after the upsert of saveMessages: body is message.body || '', and
\* isDeleted, deletedAt, deletedBy and edition are written as false, null,
\* null and []
SavedMessage(store, sessionId, message, chatId) ==
    MessageData(<<sessionId, message.id>>, MessageChatId(chatId, message),
                message.body, message.fromMe, message.timestamp)

MessageFrame ==
    /\ UNCHANGED <<maxMessagesForAnalysis, projectConfig, transcript, prompts,
                   reply, analysisResult>>
    /\ UNCHANGED <<alertVars, analysisVars, storageVars>>

\* WhatsappStorageService.saveMessage(sessionId, message, chatId): the message
\* is created or overwritten; an error of the store is logged and swallowed
saveMessage(sessionId, message, chatId) ==
    /\ \E ok \in BOOLEAN :
          messages' =
              IF ok
              THEN [messages EXCEPT ![<<sessionId, message.id>>] =
                       SavedMessage(messages, sessionId, message, chatId)]
              ELSE messages
    /\ MessageFrame

\* bulkWrite(operations): the upserts are applied in order
RECURSIVE BulkWrite(_, _, _, _)
BulkWrite(store, sessionId, list, chatId) ==
    IF list = <<>> THEN store
    ELSE BulkWrite([store EXCEPT ![<<sessionId, Head(list).id>>] =
                       SavedMessage(store, sessionId, Head(list), chatId)],
                   sessionId, Tail(list), chatId)

\* WhatsappStorageService.saveMessages(sessionId, messages, chatId): nothing
\* for an empty list; else the ordered bulk write, which stops at the first
\* operation the store refuses (the error is rethrown)
saveMessages(sessionId, list, chatId) ==
    /\ \E n \in 0..Len(list) :
          messages' = BulkWrite(messages, sessionId, SubSeq(list, 1, n), chatId)
    /\ MessageFrame

\* WhatsappStorageService.updateMessageEdition(sessionId, messageId, newBody,
\* prevBody): prevBody is pushed on the edition read, body and edition are
\* set on the stored message (no upsert); an error is logged and swallowed
updateMessageEdition(sessionId, messageId, newBody, prevBody) ==
    LET k == <<sessionId, messageId>>
        editionHistory == Append(messages[k].edition, prevBody)
    IN /\ Len(messages[k].edition) < MaxEdits
       /\ \E ok \in BOOLEAN :
             messages' =
                 IF ok /\ messages[k].exists
                 THEN [messages EXCEPT ![k].body = newBody,
                                       ![k].edition = editionHistory]
                 ELSE messages
       /\ MessageFrame

\* the collection is empty, the clock at any time
MessageInit ==
    /\ messages = [k \in MessageKeys |-> NoMessage(k)]
    /\ maxMessagesForAnalysis = MaxMessagesDefault
    /\ transcript = None
    /\ projectConfig = None
    /\ prompts = <<>>
    /\ reply = None
    /\ analysisResult = None
    /\ AnalysisAtRest
    /\ AlertsAtRest
    /\ StorageAtRest

MessageNext ==
    \/ \E m \in ClientMessages : \E c \in {"", "c2"} : saveMessage("s1", m, c)
    \/ \E m1, m2 \in ClientMessages : \E len \in 0..2 : \E c \in {"", "c2"} :
          saveMessages("s1", SubSeq(<<m1, m2>>, 1, len), c)
    \/ \E k \in EditedKeys : \E newBody, prevBody \in Bodies :
          updateMessageEdition(k[1], k[2], newBody, prevBody)
    \/ \E k \in EditedKeys : \E by \in {"everyone", "me"} : markMessageAsDeleted(k, by)

MessageSpec == MessageInit /\ [][MessageNext]_vars

----------------------------------------------------------------------------
(* The update of a session: WhatsappStorageService.updateSession *)

\* strings that new Types.ObjectId accepts
ObjectIds == {"p1", "p2"}

\* a stored session: sessionId, title, refId, sessionData, status and the
\* updatedAt that the schema option timestamps maintains
SessionDoc(title, refId, status) ==
    [exists |-> TRUE, title |-> title, refId |-> refId,
     sessionData |-> Some("data"), status |-> status, updatedAt |-> Some(0)]

NoSession ==
    [exists |-> FALSE, title |-> None, refId |-> None, sessionData |-> None,
     status |-> "", updatedAt |-> None]

\* session collections: s1 is stored, with or without a title and a project;
\* s2 is stored or not
FullSessionStores ==
    {[s \in {"s1", "s2"} |-> IF s = "s1" THEN d1 ELSE d2] :
        d1 \in {SessionDoc(t, r, st) : t \in {None, Some("t1")},
                                      r \in {None, Some("p1")},
                                      st \in {"initializing", "ready"}},
        d2 \in {NoSession, SessionDoc(None, None, "ready")}}

\* updateData: { title?: string; sessionId?: string }
UpdateData ==
    [title : {None, Some(""), Some("t2")},
     sessionId : {None, Some("p2"), Some("notAnObjectId")}]

\* allowedFields, applied with $set to a stored session; updatedAt is set by
\* the timestamps of the schema
SetAllowedFields(doc, updateData) ==
    [doc EXCEPT !.title = IF updateData.title # None THEN updateData.title ELSE @,
                !.refId = IF updateData.sessionId # None THEN updateData.sessionId ELSE @,
                !.updatedAt = Some(now)]

\* WhatsappStorageService.updateSession(sessionId, updateData): throws when
\* updateData.sessionId is no ObjectId, when no field is given, when the
\* store refuses the update and when no session matches; else sets the
\* allowed fields
updateSession(sessionId, updateData) ==
    /\ \E ok \in BOOLEAN :
          sessions' =
              IF \/ updateData.sessionId # None /\ updateData.sessionId[1] \notin ObjectIds
                 \/ updateData.title = None /\ updateData.sessionId = None
                 \/ ~ok
                 \/ ~sessions[sessionId].exists
              THEN sessions
              ELSE [sessions EXCEPT ![sessionId] = SetAllowedFields(@, updateData)]
    /\ UNCHANGED <<chats, runs, now, ollamaTimeout>>
    /\ UNCHANGED <<alertVars, inferenceVars, storageVars>>

SessionInit ==
    /\ sessions \in FullSessionStores
    /\ chats = [k \in ChatKeys |-> NoChat]
    /\ runs = [r \in {1} |-> IdleRun]
    /\ now = 1
    /\ ollamaTimeout = OllamaTimeoutDefault
    /\ InferenceAtRest
    /\ AlertsAtRest
    /\ StorageAtRest

SessionNext ==
    \/ \E sid \in {"s1", "s2"} : \E u \in UpdateData : updateSession(sid, u)
    \/ Tick

SessionSpec == SessionInit /\ [][SessionNext]_vars

----------------------------------------------------------------------------
(* Retry by re-selection: pass after pass of the scheduled job over a large
   store to which no message is added, with a store and services that answer *)

\* The store and the services answer: the find of a pass returns, and an
\* analyzeConversation call throws only where the data makes it throw (the
\* session of the chat has no project)
Answers ==
    /\ \A r \in DOMAIN runs :
          (runs[r].pc \in {"idle", "done"} /\ runs'[r] # runs[r]) => runs'[r].pc # "idle"
    /\ \A r \in DOMAIN runs : \A i \in DOMAIN runs[r].tasks :
          (i \in DOMAIN runs'[r].settled /\ runs'[r].settled[i].threw)
              => NoProject(Candidate(runs[r], i)[1])

ReselectNext ==
    \/ (\E r \in DOMAIN runs : analyseConvesation(r)) /\ Answers
    \/ (\E r \in DOMAIN runs : \E i \in DOMAIN runs[r].tasks : getProjectConfig(r, i))
           /\ Answers
    \/ (\E r \in DOMAIN runs : \E i \in DOMAIN runs[r].tasks : getProjectByGroupId(r, i))
           /\ Answers
    \/ (\E r \in DOMAIN runs : \E i \in DOMAIN runs[r].tasks : getConversationMessages(r, i))
           /\ Answers
    \/ (\E r \in DOMAIN runs : \E i \in DOMAIN runs[r].tasks : ollamaChat(r, i))
           /\ Answers
    \/ (\E r \in DOMAIN runs : \E i \in DOMAIN runs[r].tasks : updateOne(r, i))
           /\ Answers

\* the scheduler fires the job again and again and every awaited call is
\* resumed
ReselectSpec == BatchInit /\ [][ReselectNext]_vars /\ WF_vars(ReselectNext)

\* One pass after the other over a large store; every awaited call of the
\* store and of the project service is answered and resumed, while the
\* inference endpoint may leave a request without an answer for ever
UnansweredSpec ==
    /\ BatchSpec
    /\ WF_vars(\E r \in DOMAIN runs : analyseConvesation(r))
    /\ WF_vars(\E r \in DOMAIN runs : \E i \in DOMAIN runs[r].tasks : getProjectConfig(r, i))
    /\ WF_vars(\E r \in DOMAIN runs : \E i \in DOMAIN runs[r].tasks : getProjectByGroupId(r, i))
    /\ WF_vars(\E r \in DOMAIN runs : \E i \in DOMAIN runs[r].tasks :
                  getConversationMessages(r, i))
    /\ WF_vars(\E r \in DOMAIN runs : \E i \in DOMAIN runs[r].tasks : updateOne(r, i))

----------------------------------------------------------------------------
(* The analysis of a conversation read from the message collection *)

\* message collections of the conversations (s1, c1) and (s1, c2): the
\* messages m1 and m2 of session s1 are not stored or belong to one of them
ConversationStores ==
    {st \in MessageStores :
        /\ ~st[<<"s1", "m3">>].exists
        /\ \A k \in {<<"s1", "m1">>, <<"s1", "m2">>} :
              st[k].exists => st[k].timestamp = 1}

\* Mutant: the test for an empty conversation is never true
NoMessagesFound_Never(found) == FALSE

\* messages.length === 0
NoMessagesFound(found) == Len(found) = 0

\* OllamaService.analyzeConversation up to its request to the model: the
\* messages are read (the find may throw); with none found the object
\* {error} is returned at once and the caller issues its update, else the
\* prompt is built and the request is sent (startTime = Date.now())
ollamaAnalyzeConversation(r, i) ==
    /\ i \in DOMAIN runs[r].tasks
    /\ runs[r].tasks[i].pc = "messages"
    /\ LET k == Candidate(runs[r], i) IN
       \E out \in {Threw} \cup
                  {Returned(m) : m \in ChronologicalMessages(messages, k[2], k[1])} :
          runs' = [runs EXCEPT ![r] =
                      IF out.threw THEN MessagesThrow(@, i)
                      ELSE IF NoMessagesFound(out.value[1])
                      THEN [@ EXCEPT !.tasks[i] = IssueUpdate(@, "no_messages")]
                      ELSE [@ EXCEPT !.tasks[i].pc = "inference",
                                     !.tasks[i].startTime = Some(DateNow)]]
    /\ UNCHANGED <<sessions, chats, now, ollamaTimeout>>
    /\ UNCHANGED <<alertVars, inferenceVars, storageVars>>

\* one pass of the scheduled job at a time over conversations saved before
\* and their messages
ConversationInit ==
    /\ sessions = SessionDocs
    /\ chats \in [ChatKeys -> {NoChat, FirstSaved(1)}]
    /\ runs = [r \in {1} |-> IdleRun]
    /\ now = 1
    /\ ollamaTimeout = OllamaTimeoutDefault
    /\ messages \in ConversationStores
    /\ maxMessagesForAnalysis = MaxMessagesDefault
    /\ projectConfig = None
    /\ transcript = None
    /\ prompts = <<>>
    /\ reply = None
    /\ analysisResult = None
    /\ AlertsAtRest
    /\ StorageAtRest

ConversationNext ==
    \/ \E r \in DOMAIN runs : analyseConvesation(r)
    \/ \E r \in DOMAIN runs : \E i \in DOMAIN runs[r].tasks : getProjectConfig(r, i)
    \/ \E r \in DOMAIN runs : \E i \in DOMAIN runs[r].tasks : getProjectByGroupId(r, i)
    \/ \E r \in DOMAIN runs : \E i \in DOMAIN runs[r].tasks : ollamaAnalyzeConversation(r, i)
    \/ \E r \in DOMAIN runs : \E i \in DOMAIN runs[r].tasks : ollamaChat(r, i)
    \/ \E r \in DOMAIN runs : \E i \in DOMAIN runs[r].tasks : updateOne(r, i)
    \/ \E k \in {<<"s1", "m1">>, <<"s1", "m2">>} : markMessageAsDeleted(k, "everyone")
    \/ Tick

ConversationSpec == ConversationInit /\ [][ConversationNext]_vars

----------------------------------------------------------------------------
(* Concurrent storage calls on the message collection. Each call is a
   sequence of awaited database operations; the operations of different
   calls interleave. The collection is a list of documents *)

\* concurrent storage calls
MaxWriters == 2

CallIds == 1..MaxWriters

\* a storage call that has not been made
IdleCall ==
    [op |-> "none", pc |-> "idle", sessionId |-> "", chatId |-> "", list |-> <<>>,
     idx |-> 0, found |-> FALSE, messageId |-> "", edition |-> <<>>,
     newBody |-> "", prevBody |-> ""]

\* the key of a message document
KeyOf(d) == <<d.sessionId, d.messageId>>

\* the documents the filter { messageId, sessionId } matches, by position
Matching(docs, k) == {i \in DOMAIN docs : KeyOf(docs[i]) = k}

\* the document findOne and updateOne pick among those that match
FirstMatching(docs, k) == CHOOSE i \in Matching(docs, k) : \A j \in Matching(docs, k) : i <= j

\* Mutant: the collection has no unique index on its key
InsertOne_NoIndex(docs, d) == [ok |-> TRUE, docs |-> Append(docs, d)]

\* an insert into the message collection, whose key (sessionId, messageId)
\* is unique: a second document with the key of a stored one is refused
\* with a duplicate-key error
InsertOne(docs, d) ==
    IF Matching(docs, KeyOf(d)) # {}
    THEN [ok |-> FALSE, docs |-> docs]
    ELSE [ok |-> TRUE, docs |-> Append(docs, d)]

\* { $set: messageData } applied to the first document that matches
SetOne(docs, d) ==
    IF Matching(docs, KeyOf(d)) = {} THEN docs
    ELSE [docs EXCEPT ![FirstMatching(docs, KeyOf(d))] = d]

\* the document a call is about to write
CallDoc(call) ==
    SavedMessage(<<>>, call.sessionId, call.list[call.idx], call.chatId)

StorageFrame ==
    /\ UNCHANGED <<alertVars, analysisVars, inferenceVars>>

\* saveMessage(sessionId, message, chatId) is called: messageData is built
\* and findOne is awaited
beginSaveMessage(c, sessionId, message, chatId) ==
    /\ storageCalls[c].pc = "idle"
    /\ storageCalls' = [storageCalls EXCEPT ![c] =
           [IdleCall EXCEPT !.op = "saveMessage", !.pc = "findOne",
                            !.sessionId = sessionId, !.chatId = chatId,
                            !.list = <<message>>, !.idx = 1]]
    /\ UNCHANGED messageDocs
    /\ StorageFrame

\* findOne({ messageId, sessionId }) answers, or throws (logged, the call
\* returns)
findOneMessage(c) ==
    /\ storageCalls[c].op = "saveMessage"
    /\ storageCalls[c].pc = "findOne"
    /\ \E ok \in BOOLEAN :
          storageCalls' = [storageCalls EXCEPT ![c] =
              IF ok
              THEN [@ EXCEPT !.pc = "write",
                             !.found = Matching(messageDocs,
                                                KeyOf(CallDoc(storageCalls[c]))) # {}]
              ELSE [@ EXCEPT !.pc = "done"]]
    /\ UNCHANGED messageDocs
    /\ StorageFrame

\* if (!existingMessage) create(messageData) else updateOne($set:
\* messageData); an error (duplicate key included) is logged and swallowed
createOrUpdateMessage(c) ==
    /\ storageCalls[c].op = "saveMessage"
    /\ storageCalls[c].pc = "write"
    /\ \E ok \in BOOLEAN :
          messageDocs' =
              IF ~ok THEN messageDocs
              ELSE IF storageCalls[c].found
              THEN SetOne(messageDocs, CallDoc(storageCalls[c]))
              ELSE InsertOne(messageDocs, CallDoc(storageCalls[c])).docs
    /\ storageCalls' = [storageCalls EXCEPT ![c].pc = "done"]
    /\ StorageFrame

\* saveMessages(sessionId, messages, chatId) is called: it returns at once
\* for an empty list, else bulkWrite(operations) is awaited
beginSaveMessages(c, sessionId, list, chatId) ==
    /\ storageCalls[c].pc = "idle"
    /\ storageCalls' = [storageCalls EXCEPT ![c] =
           [IdleCall EXCEPT !.op = "saveMessages",
                            !.pc = IF list = <<>> THEN "done" ELSE "match",
                            !.sessionId = sessionId, !.chatId = chatId,
                            !.list = list, !.idx = IF list = <<>> THEN 0 ELSE 1]]
    /\ UNCHANGED messageDocs
    /\ StorageFrame

\* the call goes on with the next operation of its bulk write, or is done
NextOperation(call) ==
    IF call.idx < Len(call.list)
    THEN [call EXCEPT !.idx = @ + 1, !.pc = "match"]
    ELSE [call EXCEPT !.pc = "done"]

\* an updateOne operation with upsert: true looks for its document and
\* updates it; with none it goes on to insert; the bulk write may fail
\* here (the error is rethrown)
upsertMatch(c) ==
    /\ storageCalls[c].op = "saveMessages"
    /\ storageCalls[c].pc = "match"
    /\ \E ok \in BOOLEAN :
          LET call == storageCalls[c]
              hit == Matching(messageDocs, KeyOf(CallDoc(call))) # {}
          IN /\ messageDocs' = IF ok /\ hit THEN SetOne(messageDocs, CallDoc(call))
                               ELSE messageDocs
             /\ storageCalls' = [storageCalls EXCEPT ![c] =
                    IF ~ok THEN [@ EXCEPT !.pc = "done"]
                    ELSE IF hit THEN NextOperation(@)
                    ELSE [@ EXCEPT !.pc = "insert"]]
    /\ StorageFrame

\* the upsert inserts its document; when another call has inserted the key
\* in between, the server retries the operation as an update or the bulk
\* write fails with the duplicate-key error (rethrown)
upsertInsert(c) ==
    /\ storageCalls[c].op = "saveMessages"
    /\ storageCalls[c].pc = "insert"
    /\ \E retry \in BOOLEAN :
          LET call == storageCalls[c]
              ins == InsertOne(messageDocs, CallDoc(call))
          IN /\ messageDocs' = IF ins.ok THEN ins.docs
                               ELSE IF retry THEN SetOne(messageDocs, CallDoc(call))
                               ELSE messageDocs
             /\ storageCalls' = [storageCalls EXCEPT ![c] =
                    IF ins.ok \/ retry THEN NextOperation(@)
                    ELSE [@ EXCEPT !.pc = "done"]]
    /\ StorageFrame

\* the lists handed to saveMessages: empty, one message, or both messages
ClientLists ==
    {<<>>} \cup {<<m>> : m \in {x \in ClientMessages : x.body = "a"}}
           \cup {<<m1, m2>> : m1 \in {x \in ClientMessages : x.body = "" /\ x.id = "m1"},
                              m2 \in {x \in ClientMessages : x.body = "" /\ x.id = "m2"}}

\* an empty message collection and MaxWriters calls to come
SaveRaceInit ==
    /\ messageDocs = <<>>
    /\ storageCalls = [c \in CallIds |-> IdleCall]
    /\ messages = <<>>
    /\ maxMessagesForAnalysis = MaxMessagesDefault
    /\ projectConfig = None
    /\ transcript = None
    /\ prompts = <<>>
    /\ reply = None
    /\ analysisResult = None
    /\ AnalysisAtRest
    /\ AlertsAtRest

SaveRaceNext ==
    \/ \E c \in CallIds : \E m \in ClientMessages : beginSaveMessage(c, "s1", m, "")
    \/ \E c \in CallIds : findOneMessage(c)
    \/ \E c \in CallIds : createOrUpdateMessage(c)
    \/ \E c \in CallIds : \E list \in ClientLists : beginSaveMessages(c, "s1", list, "")
    \/ \E c \in CallIds : upsertMatch(c)
    \/ \E c \in CallIds : upsertInsert(c)

SaveRaceSpec == SaveRaceInit /\ [][SaveRaceNext]_vars

----------------------------------------------------------------------------
(* Concurrent updateMessageEdition calls on a stored message *)

\* updateMessageEdition(sessionId, messageId, newBody, prevBody) is called
\* and findOne is awaited
beginUpdateMessageEdition(c, sessionId, messageId, newBody, prevBody) ==
    /\ storageCalls[c].pc = "idle"
    /\ storageCalls' = [storageCalls EXCEPT ![c] =
           [IdleCall EXCEPT !.op = "updateMessageEdition", !.pc = "findOne",
                            !.sessionId = sessionId, !.messageId = messageId,
                            !.newBody = newBody, !.prevBody = prevBody]]
    /\ UNCHANGED messageDocs
    /\ StorageFrame

\* findOne answers: editionHistory = existingMessage?.edition || [], and
\* prevBody is pushed on it; or findOne throws (logged, the call returns)
findOneEdition(c) ==
    /\ storageCalls[c].op = "updateMessageEdition"
    /\ storageCalls[c].pc = "findOne"
    /\ \E ok \in BOOLEAN :
          LET call == storageCalls[c]
              k == <<call.sessionId, call.messageId>>
              read == IF Matching(messageDocs, k) = {} THEN <<>>
                      ELSE messageDocs[FirstMatching(messageDocs, k)].edition
          IN storageCalls' = [storageCalls EXCEPT ![c] =
                 IF ok
                 THEN [call EXCEPT !.pc = "write", !.found = Matching(messageDocs, k) # {},
                                   !.edition = Append(read, call.prevBody)]
                 ELSE [call EXCEPT !.pc = "failed"]]
    /\ UNCHANGED messageDocs
    /\ StorageFrame

\* updateOne({ messageId, sessionId }, { $set: { body: newBody, edition:
\* editionHistory } }): applied to the stored message, or it throws (logged)
updateOneEdition(c) ==
    /\ storageCalls[c].op = "updateMessageEdition"
    /\ storageCalls[c].pc = "write"
    /\ \E ok \in BOOLEAN :
          LET call == storageCalls[c]
              k == <<call.sessionId, call.messageId>>
          IN /\ messageDocs' =
                    IF ok /\ Matching(messageDocs, k) # {}
                    THEN [messageDocs EXCEPT
                             ![FirstMatching(messageDocs, k)].body = call.newBody,
                             ![FirstMatching(messageDocs, k)].edition = call.edition]
                    ELSE messageDocs
             /\ storageCalls' = [storageCalls EXCEPT ![c].pc =
                                    IF ok THEN "done" ELSE "failed"]
    /\ StorageFrame

\* the message (s1, m1) is stored, edited before or not, and MaxWriters
\* calls are to come
EditRaceInit ==
    /\ messageDocs \in
          {<<[MessageData(<<"s1", "m1">>, "c1", "a", FALSE, 1) EXCEPT !.edition = e]>> :
              e \in {<<>>, <<"">>}}
    /\ storageCalls = [c \in CallIds |-> IdleCall]
    /\ messages = <<>>
    /\ maxMessagesForAnalysis = MaxMessagesDefault
    /\ projectConfig = None
    /\ transcript = None
    /\ prompts = <<>>
    /\ reply = None
    /\ analysisResult = None
    /\ AnalysisAtRest
    /\ AlertsAtRest

EditRaceNext ==
    \/ \E c \in CallIds : \E newBody, prevBody \in Bodies :
          beginUpdateMessageEdition(c, "s1", "m1", newBody, prevBody)
    \/ \E c \in CallIds : findOneEdition(c)
    \/ \E c \in CallIds : updateOneEdition(c)

EditRaceSpec == EditRaceInit /\ [][EditRaceNext]_vars

----------------------------------------------------------------------------
(* The deletion history of a chat: saveChat, saveChats and markChatAsDeleted *)

\* longest deletion history in the model
MaxDeletions == 2

\* chat.lastMessage of the chats handed to the saves: none, a text message
\* or an end-to-end notification
ChatMessages ==
    {None} \cup
    {Some([type |-> ty, body |-> Some("hi"), timestamp |-> Some(t)]) :
        ty \in {"chat", "e2e_notification"}, t \in 1..2}

\* ChatData of the chat c1: id._serialized and lastMessage
ChatInputs == [id : {"c1"}, lastMessage : ChatMessages]

\* the lists handed to saveChats
ChatLists == UNION {[1..n -> ChatInputs] : n \in 0..2}

\* one updateOne operation of saveChats applied to the stored document:
\* $set of the chat fields; deletedAt: [] and, unless the last message is an
\* e2e_notification, deleted: false are in $setOnInsert
SaveChatsDoc(doc, lm) ==
    [exists                |-> TRUE,
     lastMessage           |-> BodyOrNull(lm),
     lastMessageTimestamp  |-> TimestampOrNull(lm),
     deleted               |-> IF doc.exists \/ IsE2ENotification(lm) THEN doc.deleted
                               ELSE Some(FALSE),
     deletedAt             |-> IF doc.exists THEN doc.deletedAt ELSE <<>>,
     lastAnalysisTimestamp |-> doc.lastAnalysisTimestamp,
     analysis              |-> doc.analysis]

\* bulkWrite(operations): the upserts of the list applied in order
RECURSIVE BulkWriteChats(_, _, _)
BulkWriteChats(c, sessionId, list) ==
    IF list = <<>> THEN c
    ELSE BulkWriteChats(
             [c EXCEPT ![<<sessionId, Head(list).id>>] =
                 SaveChatsDoc(@, Head(list).lastMessage)],
             sessionId, Tail(list))

\* saveChat(sessionId, chat) called for each chat of the list in order
RECURSIVE SaveEachChat(_, _, _)
SaveEachChat(c, sessionId, list) ==
    IF list = <<>> THEN c
    ELSE SaveEachChat(
             [c EXCEPT ![<<sessionId, Head(list).id>>] =
                 SaveChatDoc(@, Head(list).lastMessage)],
             sessionId, Tail(list))

\* WhatsappStorageService.saveChats(sessionId, chats): nothing for an empty
\* list; else the ordered bulk write, which stops at the first operation the
\* store refuses (the error is rethrown)
saveChats(sessionId, list) ==
    /\ \E n \in 0..Len(list) :
          chats' = BulkWriteChats(chats, sessionId, SubSeq(list, 1, n))
    /\ UNCHANGED <<sessions, runs, now, ollamaTimeout>>
    /\ UNCHANGED <<alertVars, inferenceVars, storageVars>>

\* WhatsappStorageService.markChatAsDeleted(sessionId, chatId): findOne; an
\* unknown chat is logged and left alone; else $set deleted: true and $push
\* deletedAt: new Date(); an error is rethrown
markChatAsDeleted(k) ==
    /\ Len(chats[k].deletedAt) < MaxDeletions
    /\ \E ok \in BOOLEAN :
          chats' = IF ok /\ chats[k].exists
                   THEN [chats EXCEPT ![k].deleted = Some(TRUE),
                                      ![k].deletedAt = Append(@, DateNow)]
                   ELSE chats
    /\ UNCHANGED <<sessions, runs, now, ollamaTimeout>>
    /\ UNCHANGED <<alertVars, inferenceVars, storageVars>>

\* an empty chat collection; the chats of session s1 are saved, deleted and
\* saved again, the chat of session s2 is never saved
ChatInit ==
    /\ AnalysisAtRest
    /\ AlertsAtRest
    /\ InferenceAtRest
    /\ StorageAtRest

ChatNext ==
    \/ \E chat \in ChatInputs : saveChat(<<"s1", chat.id>>, chat.lastMessage)
    \/ \E list \in ChatLists : saveChats("s1", list)
    \/ \E k \in ChatKeys : markChatAsDeleted(k)
    \/ Tick

ChatSpec == ChatInit /\ [][ChatNext]_vars

\* ======================== PROPERTIES ========================

Range(s) == {s[i] : i \in DOMAIN s}

Count(s, e) == Cardinality({i \in DOMAIN s : s[i] = e})

\* the rows of the alert collection created by delivery d
RowsOf(d) == {i \in DOMAIN alerts : origin[i] = d}

MessagePatterns == {"message_deleted", "message_edited"}

\* A field is carried when it is there with a usable value: a non-empty
\* string, a non-zero number. An empty string or a zero is a missing field.
CarriesStr(f) == f # None /\ f[1] # ""
CarriesNum(f) == f # None /\ f[1] # 0

\* the fields the payload's type requires are carried
RequiredCarried(p) ==
    CASE p.pattern = "disconnected" -> p.session # None /\ p.sessionId # None
      [] p.pattern \in MessagePatterns ->
             CarriesStr(p.messageId) /\ CarriesStr(p.chatId) /\ CarriesNum(p.timestamp)
      [] p.pattern = "chat_removed" -> CarriesStr(p.chatId) /\ CarriesNum(p.timestamp)

\* the type-specific fields of message_deleted, message_edited, chat_removed
TypeFieldsMissing(p) ==
    \/ p.pattern \in MessagePatterns /\ ~RequiredCarried(p)
    \/ p.pattern = "chat_removed" /\ ~RequiredCarried(p)

\* a payload of the documented shape: session is an ObjectId string,
\* sessionId is there, and the fields the type requires are carried
WellFormed(p) ==
    /\ p.session = Some("oid1")
    /\ p.sessionId # None
    /\ RequiredCarried(p)

\* C1: a message_deleted or message_edited delivery whose payload carries
\* messageId, chatId and timestamp (each with a usable value: non-empty,
\* non-zero) and in which nothing throws creates exactly one alert row, built
\* from the payload, and is acknowledged exactly once, with no nack.
C1_ValidMessageAlertOneRowOneAck ==
    (/\ payload.pattern \in MessagePatterns
     /\ RequiredCarried(payload)
     /\ hpc = "returned"
     /\ "throw" \notin Range(trace))
    => /\ trace = <<"create", "persisted", "ack">>
       /\ Cardinality(RowsOf(deliveries)) = 1
       /\ \A i \in RowsOf(deliveries) :
              /\ alerts[i].type = payload.pattern
              /\ alerts[i].messageId = payload.messageId
              /\ alerts[i].chatId = payload.chatId
              /\ alerts[i].timestamp = payload.timestamp
       /\ qstate = "acked"
       /\ acks = 1
       /\ Count(trace, "nack") = 0

C1_Witness ==
    /\ payload.pattern = "message_edited"
    /\ RequiredCarried(payload)
    /\ hpc = "returned"
    /\ trace = <<"create", "persisted", "ack">>
    /\ Len(alerts) = 1

\* C2: a message_deleted or message_edited delivery missing messageId,
\* chatId or timestamp, and a chat_removed delivery missing chatId or
\* timestamp, creates no alert row and is acknowledged on its first delivery;
\* it is never negatively acknowledged and never delivered again.
C2_MissingFieldsAckedNoRow ==
    (TypeFieldsMissing(payload) /\ deliveries >= 1)
    => /\ trace = <<"missing", "ack">>
       /\ hpc = "returned"
       /\ qstate = "acked"
       /\ alerts = <<>>
       /\ acks = 1
       /\ nacks = 0
       /\ deliveries = 1

C2_Witness ==
    /\ payload.pattern = "message_deleted"
    /\ payload.messageId = Some("m1")
    /\ payload.chatId = None
    /\ payload.timestamp = Some(1700)
    /\ qstate = "acked"
    /\ alerts = <<>>

\* C3: for every alert type, when persisting the alert row throws, the
\* handler negatively acknowledges the delivery with requeue (the message is
\* ready for delivery again), does not acknowledge it, and the delivery has
\* created no alert row.
C3_PersistThrowsNackRequeue ==
    (hpc = "returned" /\ "create" \in Range(trace) /\ "throw" \in Range(trace))
    => /\ trace = <<"create", "throw", "nack">>
       /\ qstate = "ready"
       /\ RowsOf(deliveries) = {}
       /\ acks = 0
       /\ nacks >= 1

C3_Witness ==
    /\ payload.pattern = "disconnected"
    /\ hpc = "returned"
    /\ trace = <<"create", "throw", "nack">>
    /\ qstate = "ready"

\* C4: a well-formed delivery is acknowledged only after its alert row has
\* been stored: whenever the handler of a well-formed payload has called ack,
\* the store had already inserted the row of this delivery.
C4_AckAfterPersist ==
    (WellFormed(payload) /\ "ack" \in Range(trace))
    => /\ \E i, j \in DOMAIN trace :
              i < j /\ trace[i] = "persisted" /\ trace[j] = "ack"
       /\ \A j \in DOMAIN trace :
              trace[j] = "ack" => \E i \in 1..(j - 1) : trace[i] = "persisted"
       /\ RowsOf(deliveries) # {}

C4_Witness ==
    /\ payload.pattern = "chat_removed"
    /\ WellFormed(payload)
    /\ trace = <<"create", "persisted", "ack">>
    /\ qstate = "acked"

\* the payload lacks a field its type requires
Malformed(p) == ~RequiredCarried(p)

\* C5: a payload that lacks a field its type requires, of any of the four
\* types (for disconnected: session or sessionId), is never negatively
\* acknowledged with requeue.
C5_MalformedNeverRetried ==
    Malformed(payload) => nacks = 0

\* C6: at-least-once alert creation. Every well-formed message is eventually
\* acknowledged, and whenever a well-formed message is acknowledged the
\* collection holds at least one alert row for it.
C6_AtLeastOnce ==
    /\ [](WellFormed(payload) /\ qstate = "acked" => Len(alerts) >= 1)
    /\ (WellFormed(payload) ~> qstate = "acked")

C6_Witness ==
    /\ WellFormed(payload)
    /\ qstate = "acked"
    /\ rejects >= 1
    /\ Len(alerts) >= 1

\* C7: every delivery is settled exactly once by the time its handler
\* returns: the handler has called exactly one of ack and nack, once; while
\* the handler is still awaiting, it has called neither.
C7_SettledExactlyOnce ==
    /\ hpc = "returned" =>
           /\ Count(trace, "ack") + Count(trace, "nack") = 1
           /\ qstate \in {"acked", "ready"}
    /\ hpc \in {"awaitCreate", "created"} =>
           /\ Count(trace, "ack") + Count(trace, "nack") = 0
           /\ qstate = "unacked"
    /\ acks + nacks + crashes <= deliveries
    /\ acks <= 1

C7_Witness ==
    /\ hpc = "returned"
    /\ nacks = 2
    /\ acks = 1
    /\ deliveries = 3

\* C8: once a conversation has been analyzed, storing a newer last message
\* for it (a message with a body, sent after the analysis was written, with a
\* later timestamp than the stored one) leaves lastAnalysisTimestamp strictly
\* less than lastMessageTimestamp, so that the next pass selects it again.
C8_NewMessageTriggersReanalysis ==
    [][\A k \in DOMAIN chats :
          (/\ chats[k].exists
           /\ chats[k].lastAnalysisTimestamp # None
           /\ chats'[k].lastAnalysisTimestamp = chats[k].lastAnalysisTimestamp
           /\ HasLastMessage(chats'[k])
           /\ Newer(chats[k], chats'[k])
           /\ chats'[k].lastMessageTimestamp[1] * MsPerSec
                  > chats[k].lastAnalysisTimestamp[1])
          => /\ BsonLt(chats'[k].lastAnalysisTimestamp, chats'[k].lastMessageTimestamp)
             /\ NeedsAnalysis(chats'[k])]_vars

\* C9: when a newer message of a conversation is stored while its analysis
\* is in flight (after the messages were read, before the result is written),
\* the conversation matches the job's filter once the result is written, so
\* the next pass selects it again.
C9_RaceRequeues ==
    [][\A r \in DOMAIN runs : \A i \in DOMAIN runs[r].tasks :
          (/\ runs[r].tasks[i].pc = "write"
           /\ runs[r].tasks[i].raced
           /\ i \in DOMAIN runs'[r].settled
           /\ HasLastMessage(chats'[Candidate(runs[r], i)])
           /\ chats'[Candidate(runs[r], i)].lastAnalysisTimestamp
                  = runs[r].tasks[i].stamp)
          => NeedsAnalysis(chats'[Candidate(runs[r], i)])]_vars

\* C10: a pass never selects a conversation whose lastMessage is null or
\* empty, nor one whose lastAnalysisTimestamp is non-null and greater than or
\* equal to its lastMessageTimestamp (or set while lastMessageTimestamp is
\* null).
C10_NeverSelectsAnalyzedOrEmpty ==
    [][\A r \in DOMAIN runs :
          (runs[r].pc \in {"idle", "done"} /\ runs'[r].pc = "loop")
          => \A i \in DOMAIN runs'[r].batch :
                LET d == chats[runs'[r].batch[i]] IN
                /\ d.exists
                /\ d.lastMessage # None
                /\ d.lastMessage[1] # ""
                /\ d.lastAnalysisTimestamp # None =>
                       /\ d.lastMessageTimestamp # None
                       /\ d.lastAnalysisTimestamp[1] < d.lastMessageTimestamp[1]]_vars

\* a pass has just selected its batch and left out the analyzed chat of s1
C10_Witness ==
    /\ runs[1].pc = "loop"
    /\ runs[1].idx = 1
    /\ DOMAIN runs[1].tasks = {1}
    /\ runs[1].tasks[1].pc = "config"
    /\ runs[1].batch = << <<"s2", "c1">> >>
    /\ HasLastMessage(chats[<<"s1", "c1">>])
    /\ chats[<<"s1", "c1">>].lastMessageTimestamp # None
    /\ chats[<<"s1", "c1">>].lastAnalysisTimestamp # None
    /\ chats[<<"s1", "c1">>].lastAnalysisTimestamp[1]
           >= chats[<<"s1", "c1">>].lastMessageTimestamp[1]

\* the query of pass r answers in this step
Selects(r) ==
    /\ runs[r].caller = "cron"
    /\ runs[r].pc \in {"idle", "done"}
    /\ runs'[r].pc \in {"loop", "done"}
    /\ runs'[r] # runs[r]

\* never analyzed, with a non-empty last message
Unanalyzed(doc) ==
    doc.exists /\ HasLastMessage(doc) /\ doc.lastAnalysisTimestamp = None

\* C11 as stated: every conversation with lastAnalysisTimestamp = null and a
\* non-empty lastMessage is in the batch of every pass (whose query has
\* answered), whatever else is in the store.
C11_UnanalyzedAlwaysSelected ==
    [][\A r \in DOMAIN runs :
          Selects(r) =>
             \A k \in DOMAIN chats :
                Unanalyzed(chats[k]) => k \in Range(runs'[r].batch)]_vars

\* C11 amended: a conversation with lastAnalysisTimestamp = null and a
\* non-empty lastMessage is in the batch of a pass (whose query has
\* answered) unless the batch is full (30 conversations) and every
\* conversation in it has a lastMessageTimestamp at least as recent as its
\* own.
C11_UnanalyzedSelectedUnlessBatchFull ==
    [][\A r \in DOMAIN runs :
          Selects(r) =>
             \A k \in DOMAIN chats :
                Unanalyzed(chats[k]) =>
                   \/ k \in Range(runs'[r].batch)
                   \/ /\ Len(runs'[r].batch) = BatchLimit
                      /\ \A i \in DOMAIN runs'[r].batch :
                             SortKey(chats[runs'[r].batch[i]]) >= SortKey(chats[k])]_vars

\* a pass has just taken a full batch and left a never analyzed chat out
C11_Witness ==
    /\ runs[1].pc = "loop"
    /\ runs[1].idx = 1
    /\ DOMAIN runs[1].tasks = {1}
    /\ runs[1].tasks[1].pc = "config"
    /\ Len(runs[1].batch) = BatchLimit
    /\ \E k \in DOMAIN chats :
          Unanalyzed(chats[k]) /\ k \notin Range(runs[1].batch)

\* the chats of store c that match the job's filter
Eligible(c) == {k \in DOMAIN c : NeedsAnalysis(c[k])}

\* C12: a pass (whose query has answered) takes exactly
\* min(30, number of eligible) conversations, all
\* eligible and distinct, in descending lastMessageTimestamp order, none of
\* them older than an eligible one left out; its loop calls
\* analyzeConversation for each of them once, in that order, and when the
\* pass is done all of them have been attempted; a step of the pass changes
\* no conversation outside its batch, so that the eligible ones left out are
\* still eligible.
C12_BatchIsTopThirtyInOrder ==
    /\ [][\A r \in DOMAIN runs :
            Selects(r) =>
               LET b == runs'[r].batch IN
               /\ Len(b) = Min(BatchLimit, Cardinality(Eligible(chats)))
               /\ \A i \in DOMAIN b : b[i] \in Eligible(chats)
               /\ \A i, j \in DOMAIN b : i # j => b[i] # b[j]
               /\ \A i, j \in DOMAIN b :
                      i < j => SortKey(chats[b[i]]) >= SortKey(chats[b[j]])
               /\ \A k \in Eligible(chats) \ Range(b) :
                      \A i \in DOMAIN b : SortKey(chats[b[i]]) >= SortKey(chats[k])]_vars
    /\ [](\A r \in DOMAIN runs :
            /\ runs[r].pc = "loop" =>
                   /\ DOMAIN runs[r].tasks = {runs[r].idx}
                   /\ DOMAIN runs[r].settled = 1..(runs[r].idx - 1)
                   /\ runs[r].idx \in DOMAIN runs[r].batch
            /\ (runs[r].pc = "done" /\ runs[r].caller = "cron") =>
                   /\ DOMAIN runs[r].tasks = {}
                   /\ DOMAIN runs[r].settled = DOMAIN runs[r].batch)
    /\ [][\A r \in DOMAIN runs : \A k \in DOMAIN chats :
            (runs[r].pc = "loop" /\ k \notin Range(runs[r].batch))
            => /\ chats'[k] = chats[k]
               /\ NeedsAnalysis(chats[k]) => NeedsAnalysis(chats'[k])]_vars

\* a pass over more than 30 eligible chats is done: it has attempted 30, and
\* the eligible chats it left out are still eligible
C12_Witness ==
    /\ runs[1].pc = "done"
    /\ Len(runs[1].batch) = BatchLimit
    /\ DOMAIN runs[1].settled = 1..BatchLimit
    /\ Cardinality(Eligible(chats) \ Range(runs[1].batch)) >= 1

\* C13: an inference call never lasts longer than OLLAMA_TIMEOUT: no
\* analyzeConversation call is still waiting for the model once the timeout
\* has elapsed since the request was sent, and no reply that came later than
\* the timeout leads to an update of the conversation.
C13_InferenceTimesOut ==
    \A r \in DOMAIN runs : \A i \in DOMAIN runs[r].tasks :
        LET call == runs[r].tasks[i] IN
        /\ call.pc = "inference" =>
               DateNow - call.startTime[1] <= ollamaTimeout
        /\ (call.pc = "write" /\ call.startTime # None) =>
               call.stamp[1] - call.startTime[1] <= ollamaTimeout

\* the stages of an analyzeConversation call before its update is issued
BeforeUpdate == {"config", "project", "messages", "inference"}

\* C14: when an analyzeConversation call ends while resolving the project
\* configuration, reading the messages or waiting for the model, it ends by
\* throwing, and the step changes no conversation: analysis and
\* lastAnalysisTimestamp keep their values and a conversation that matched
\* the job's filter still matches it. Only a call that has issued its update
\* changes the analysis or the lastAnalysisTimestamp of a conversation, and
\* only of its own.
C14_FailureLeavesConversation ==
    /\ [][\A r \in DOMAIN runs : \A i \in DOMAIN runs[r].tasks :
            (/\ runs[r].tasks[i].pc \in BeforeUpdate
             /\ i \in DOMAIN runs'[r].settled)
            => LET k == Candidate(runs[r], i) IN
               /\ runs'[r].settled[i] = Threw
               /\ chats'[k].analysis = chats[k].analysis
               /\ chats'[k].lastAnalysisTimestamp = chats[k].lastAnalysisTimestamp
               /\ NeedsAnalysis(chats[k]) => NeedsAnalysis(chats'[k])]_vars
    /\ [][\A k \in DOMAIN chats :
            (\/ chats'[k].analysis # chats[k].analysis
             \/ chats'[k].lastAnalysisTimestamp # chats[k].lastAnalysisTimestamp)
            => \E r \in DOMAIN runs : \E i \in DOMAIN runs[r].tasks :
                  runs[r].tasks[i].pc = "write" /\ Candidate(runs[r], i) = k]_vars

\* the analysis of a never analyzed chat of the linked session has failed,
\* and the chat is still eligible
C14_Witness ==
    /\ runs[1].pc = "done"
    /\ runs[1].batch = << <<"s1", "c1">> >>
    /\ runs[1].settled[1] = Threw
    /\ chats[<<"s1", "c1">>].lastAnalysisTimestamp = None
    /\ chats[<<"s1", "c1">>].analysis = None
    /\ NeedsAnalysis(chats[<<"s1", "c1">>])

\* C15: a pass never ends by raising an error; when the analysis of a
\* candidate fails and candidates are left, the loop goes on with the next
\* one; and when the pass is done every candidate of its batch has been
\* attempted.
C15_FailureDoesNotStopPass ==
    /\ [](\A r \in DOMAIN runs :
            /\ runs[r].pc \in {"idle", "loop", "call", "done"}
            /\ (runs[r].pc = "done" /\ runs[r].caller = "cron") =>
                   DOMAIN runs[r].settled = DOMAIN runs[r].batch)
    /\ [][\A r \in DOMAIN runs : \A i \in DOMAIN runs[r].tasks :
            (/\ runs[r].pc = "loop"
             /\ i \in DOMAIN runs'[r].settled
             /\ runs'[r].settled[i] = Threw)
            => IF i < Len(runs[r].batch)
               THEN /\ runs'[r].pc = "loop"
                    /\ runs'[r].batch = runs[r].batch
                    /\ DOMAIN runs'[r].tasks = {i + 1}
               ELSE runs'[r].pc = "done"]_vars

\* a pass is done whose first 29 analyses failed and whose last one
\* returned
C15_Witness ==
    /\ runs[1].pc = "done"
    /\ Len(runs[1].batch) = BatchLimit
    /\ \A i \in 1..(BatchLimit - 1) : runs[1].settled[i] = Threw
    /\ ~runs[1].settled[BatchLimit].threw

\* C16: a call whose project configuration, messages and inference have
\* succeeded issues its update with the object the inference returned and
\* lastAnalysisTimestamp = Date.now(); when the update has been applied to
\* the stored conversation (sessionId, chatId), that conversation holds this
\* analysis and this lastAnalysisTimestamp and is otherwise as before, every
\* other conversation is as before, and the call returns
\* {success: true, chatId, analysis} with the same object.
C16_SuccessWritesAndReturns ==
    /\ [][\A r \in DOMAIN runs : \A i \in DOMAIN runs[r].tasks :
            (/\ runs[r].tasks[i].pc = "inference"
             /\ i \in DOMAIN runs'[r].tasks
             /\ runs'[r].tasks[i].pc = "write")
            => /\ runs'[r].tasks[i].stamp = Some(DateNow)
               /\ runs'[r].tasks[i].result \in {Some("parsed"), Some("fallback")}
               /\ chats' = chats]_vars
    /\ [][\A r \in DOMAIN runs : \A i \in DOMAIN runs[r].tasks :
            LET k == Candidate(runs[r], i)
                call == runs[r].tasks[i]
            IN (/\ call.pc = "write"
                /\ call.startTime # None
                /\ chats[k].exists
                /\ i \in DOMAIN runs'[r].settled
                /\ ~runs'[r].settled[i].threw)
               => /\ chats'[k] = [chats[k] EXCEPT
                                     !.analysis = call.result,
                                     !.lastAnalysisTimestamp = call.stamp]
                  /\ \A j \in DOMAIN chats \ {k} : chats'[j] = chats[j]
                  /\ runs'[r].settled[i].value =
                         Some([success |-> TRUE, chatId |-> k[2],
                               analysis |-> call.result[1]])]_vars

\* the request for (s1, c1) has returned the parsed object, which the chat
\* now holds, while the chat c1 of the other session is as it was saved
C16_Witness ==
    /\ runs[1].pc = "done"
    /\ runs[1].batch = << <<"s1", "c1">> >>
    /\ runs[1].settled[1] =
           Returned([success |-> TRUE, chatId |-> "c1", analysis |-> "parsed"])
    /\ chats[<<"s1", "c1">>].analysis = Some("parsed")
    /\ chats[<<"s1", "c1">>].lastAnalysisTimestamp = Some(2 * MsPerSec)
    /\ chats[<<"s2", "c1">>] = FirstSaved(1)

\* no session document with this sessionId, or one without refId
Unlinked(sid) ==
    \/ sid \notin DOMAIN sessions
    \/ ~sessions[sid].exists
    \/ sessions[sid].refId = None

\* C17: an analyzeConversation call for a session that is not stored or
\* has no refId never gets past the session lookup (it sends no
\* project-configuration request, reads no messages, sends no inference
\* request and issues no update); its step after the lookup ends the call by
\* throwing, which ends the on-demand request with this error, and changes
\* no conversation.
C17_UnlinkedSessionFailsFast ==
    /\ [](\A r \in DOMAIN runs : \A i \in DOMAIN runs[r].tasks :
            Unlinked(Candidate(runs[r], i)[1]) => runs[r].tasks[i].pc = "config")
    /\ [][\A r \in DOMAIN runs : \A i \in DOMAIN runs[r].tasks :
            (/\ Unlinked(Candidate(runs[r], i)[1])
             /\ runs'[r] # runs[r])
            => /\ i \in DOMAIN runs'[r].settled
               /\ runs'[r].settled[i] = Threw
               /\ i \notin DOMAIN runs'[r].tasks
               /\ runs[r].caller = "http" => runs'[r].pc = "done"
               /\ chats' = chats]_vars

\* the request for a chat of the session that is not stored has ended with
\* an error; the chat, saved before, is untouched
C17_Witness ==
    /\ ~sessions["s2"].exists
    /\ runs[1].caller = "http"
    /\ runs[1].pc = "done"
    /\ runs[1].batch = << <<"s2", "c1">> >>
    /\ runs[1].settled[1] = Threw
    /\ chats[<<"s2", "c1">>] = FirstSaved(1)

\* the analyzeConversation calls of pass r in flight
InFlight(r) == Cardinality(DOMAIN runs[r].tasks)

\* C18: at no moment are more than 3 analyzeConversation calls of one pass
\* in flight.
C18_AtMostThreeInFlight ==
    \A r \in DOMAIN runs : InFlight(r) <= ConcurrencyLimit

\* a pass with more than 3 candidates is at its fifth, the only one in flight
C18_Witness ==
    /\ runs[1].pc = "loop"
    /\ Len(runs[1].batch) > ConcurrencyLimit
    /\ runs[1].idx = ConcurrencyLimit + 2
    /\ InFlight(1) = 1

\* C19: a pass with at least 3 candidates runs 3 analyses at the same time:
\* when the first analysis of the pass to finish finishes, 3 calls of the
\* pass are in flight (the second and the third were started before it
\* finished).
C19_ThreeAtATime ==
    [][\A r \in DOMAIN runs :
          (/\ runs[r].pc = "loop"
           /\ Len(runs[r].batch) >= ConcurrencyLimit
           /\ DOMAIN runs[r].settled = {}
           /\ DOMAIN runs'[r].settled # {})
          => InFlight(r) = ConcurrencyLimit]_vars

\* the update of call i of pass r is applied to its stored chat in this step
Applies(r, i) ==
    /\ runs[r].tasks[i].pc = "write"
    /\ chats[Candidate(runs[r], i)].exists
    /\ i \in DOMAIN runs'[r].settled
    /\ ~runs'[r].settled[i].threw

\* the passes that have analyzed chat k and are done
DoneWith(k) ==
    {r \in DOMAIN runs :
        /\ runs[r].pc = "done"
        /\ \E i \in DOMAIN runs[r].settled :
               Candidate(runs[r], i) = k /\ ~runs[r].settled[i].threw}

\* C20 as stated: every write of an analysis leaves the conversation with
\* the analysis and the lastAnalysisTimestamp of that write (the last writer
\* wins), and that lastAnalysisTimestamp is the later of the time written
\* and the time the conversation held before: after two overlapping passes
\* the conversation holds the later of the two times.
C20_LastWriteIsLatest ==
    [][\A r \in DOMAIN runs : \A i \in DOMAIN runs[r].tasks :
          Applies(r, i) =>
             LET k == Candidate(runs[r], i) IN
             /\ chats'[k].analysis = runs[r].tasks[i].result
             /\ chats'[k].lastAnalysisTimestamp = runs[r].tasks[i].stamp
             /\ chats[k].lastAnalysisTimestamp # None =>
                    chats'[k].lastAnalysisTimestamp[1]
                        >= chats[k].lastAnalysisTimestamp[1]]_vars

\* C20 amended: two passes may overlap and both analyze the same
\* conversation; every write leaves the conversation with the analysis and
\* the lastAnalysisTimestamp of that write, so that once both passes are
\* done the conversation holds the analysis of one of them, the one whose
\* update was applied last (its lastAnalysisTimestamp need not be the later
\* of the two).
C20_LastWriterWins ==
    /\ [][\A r \in DOMAIN runs : \A i \in DOMAIN runs[r].tasks :
            Applies(r, i) =>
               LET k == Candidate(runs[r], i) IN
               /\ chats'[k].analysis = runs[r].tasks[i].result
               /\ chats'[k].lastAnalysisTimestamp = runs[r].tasks[i].stamp]_vars
    /\ [](\A k \in DOMAIN chats :
            (DoneWith(k) = DOMAIN runs /\ chats[k].exists) =>
               \E r \in DOMAIN runs : \E i \in DOMAIN runs[r].settled :
                  /\ Candidate(runs[r], i) = k
                  /\ ~runs[r].settled[i].threw
                  /\ chats[k].analysis = Some(runs[r].settled[i].value[1].analysis))

\* both passes have analyzed (s1, c1) and are done; pass 1 returned the
\* parsed object, pass 2 the fallback object, which the chat holds with a
\* lastAnalysisTimestamp earlier than the present time
C20_Witness ==
    /\ DoneWith(<<"s1", "c1">>) = {1, 2}
    /\ \A r \in {1, 2} :
          runs[r].batch = << <<"s1", "c1">> >> /\ ~runs[r].settled[1].threw
    /\ runs[1].settled[1].value[1].analysis = "parsed"
    /\ runs[2].settled[1].value[1].analysis = "fallback"
    /\ chats[<<"s1", "c1">>].analysis = Some("fallback")
    /\ chats[<<"s1", "c1">>].lastAnalysisTimestamp = Some(MsPerSec)
    /\ now >= 2

\* C21 as stated: a conversation's lastAnalysisTimestamp is null or a time
\* at which an analysis of it wrote, never later than the current time, and
\* it never decreases (once set it stays set, with a value at least as
\* large).
C21_AnalysisTimeNeverDecreases ==
    /\ [](\A k \in DOMAIN chats :
            chats[k].lastAnalysisTimestamp # None =>
                chats[k].lastAnalysisTimestamp[1] <= DateNow)
    /\ [][\A k \in DOMAIN chats :
            chats[k].lastAnalysisTimestamp # None =>
                /\ chats'[k].lastAnalysisTimestamp # None
                /\ chats'[k].lastAnalysisTimestamp[1]
                       >= chats[k].lastAnalysisTimestamp[1]]_vars

\* C21 amended: a conversation's lastAnalysisTimestamp is null or the time
\* at which an analysis of that conversation issued its update (Date.now()
\* when updateOne is called), set by the step that applies that update; it
\* is never later than the current time and, once set, is never null again
\* (it may decrease when analyses of the conversation overlap).
C21_AnalysisTimeIsIssueTime ==
    /\ [](\A k \in DOMAIN chats :
            chats[k].lastAnalysisTimestamp # None =>
                chats[k].lastAnalysisTimestamp[1] <= DateNow)
    /\ [][\A k \in DOMAIN chats :
            chats'[k].lastAnalysisTimestamp # chats[k].lastAnalysisTimestamp
            => \E r \in DOMAIN runs : \E i \in DOMAIN runs[r].tasks :
                  /\ Candidate(runs[r], i) = k
                  /\ Applies(r, i)
                  /\ runs[r].tasks[i].stamp # None
                  /\ runs[r].tasks[i].stamp[1] <= DateNow
                  /\ chats'[k].lastAnalysisTimestamp = runs[r].tasks[i].stamp]_vars

\* two seconds after its update was issued, the analysis of pass 1 is the
\* one the chat holds, and both passes have analyzed the chat
C21_Witness ==
    /\ DoneWith(<<"s1", "c1">>) = {1, 2}
    /\ chats[<<"s1", "c1">>].lastAnalysisTimestamp = Some(MsPerSec)
    /\ now = 3

\* the text is not valid JSON, as it is or without its code-fence markers
Unparseable(text) ==
    JsonParse(text) = None /\ JsonParse(Trim(StripFences(text))) = None

\* the text of a reply: the empty text for a reply without content
ReplyText == IF reply = None THEN <<>> ELSE reply[1]

\* C22 as stated: parsing never throws, and for every reply text that is not
\* valid JSON even without its code-fence markers the result is
\* {raw: the reply text, error: "Failed to parse JSON"}.
C22_UnparseableGivesFallback ==
    analysisResult # None =>
        /\ ~analysisResult[1].threw
        /\ Unparseable(ReplyText) =>
               analysisResult[1].value = Some(Fallback(ReplyText))

\* C22 amended: parsing never throws; for every non-empty reply text that is
\* not valid JSON even without its code-fence markers the result is
\* {raw: the reply text, error: "Failed to parse JSON"}, and only for those;
\* a reply with empty or missing content is parsed as '{}' and gives the
\* empty object.
C22_NeverThrowsFallbackUnlessEmpty ==
    analysisResult # None =>
        /\ ~analysisResult[1].threw
        /\ (ReplyText # <<>> /\ Unparseable(ReplyText)) =>
               analysisResult[1].value = Some(Fallback(ReplyText))
        /\ ReplyText = <<>> =>
               analysisResult[1].value = Some(ParsedObject("{}"))
        /\ analysisResult[1].value[1].error # None =>
               ReplyText # <<>> /\ Unparseable(ReplyText)

\* prose around a JSON value: the fallback object with the whole reply
C22_Witness ==
    /\ reply = Some(<<"x", "sp", "{}", "x">>)
    /\ analysisResult = Some(Returned(Fallback(<<"x", "sp", "{}", "x">>)))

\* C23: for a reply that is a JSON document wrapped in a Markdown code fence
\* (three backticks and json, line feed, the document, line feed, three
\* backticks, with or without a final line feed), the result is the value JSON.parse gives for the
\* document alone.
C23_FencedEqualsUnwrapped ==
    \A j \in JsonTexts : \A t \in {<<>>, <<"nl">>} :
        (reply = Some(Fenced(j) \o t) /\ analysisResult # None) =>
            analysisResult = Some(Returned(ParsedObject(JsonParse(j)[1])))

\* a fenced document with white space of its own
C23_Witness ==
    /\ reply = Some(Fenced(<<"sp", "[1]", "nl">>))
    /\ analysisResult = Some(Returned(ParsedObject("[1]")))

\* the stored, non-deleted messages of the conversation (sessionId, chatId)
Live(chatId, sessionId) ==
    {k \in DOMAIN messages :
        /\ messages[k].exists
        /\ k[1] = sessionId
        /\ messages[k].chatId = chatId
        /\ ~messages[k].isDeleted}

\* C24: when getConversationMessages(chatId, sessionId) returns, with n
\* non-deleted messages stored for (sessionId, chatId), the transcript has
\* exactly min(maxMessagesForAnalysis, n) entries, all of them distinct
\* non-deleted messages of that session and chat, as they are stored, oldest
\* first, and no message left out is more recent than one that is in it.
C24_TranscriptIsMostRecentInOrder ==
    [][(transcript' # transcript /\ ~transcript'[1].out.threw) =>
          LET t == transcript'[1].out.value[1]
              live == Live(transcript'[1].chatId, transcript'[1].sessionId)
          IN /\ Len(t) = Min(maxMessagesForAnalysis, Cardinality(live))
             /\ \A i \in DOMAIN t :
                    /\ <<t[i].sessionId, t[i].messageId>> \in live
                    /\ t[i] = messages[<<t[i].sessionId, t[i].messageId>>]
             /\ \A i, j \in DOMAIN t : i # j => t[i].messageId # t[j].messageId
             /\ \A i, j \in DOMAIN t : i < j => t[i].timestamp <= t[j].timestamp
             /\ \A k \in live :
                    (\A i \in DOMAIN t : t[i].messageId # k[2]) =>
                        \A i \in DOMAIN t : messages[k].timestamp <= t[i].timestamp]_vars

\* chat c1 of session s1 has three messages, the most recent of them
\* deleted, and so has only two live ones: with a limit of 1 the transcript
\* is the later of the two
C24_Witness ==
    /\ maxMessagesForAnalysis = 1
    /\ messages[<<"s1", "m1">>].exists /\ messages[<<"s1", "m1">>].chatId = "c1"
    /\ messages[<<"s1", "m1">>].timestamp = 1
    /\ messages[<<"s1", "m2">>].exists /\ messages[<<"s1", "m2">>].chatId = "c1"
    /\ messages[<<"s1", "m2">>].timestamp = 2 /\ ~messages[<<"s1", "m2">>].isDeleted
    /\ messages[<<"s1", "m3">>].exists /\ messages[<<"s1", "m3">>].chatId = "c1"
    /\ messages[<<"s1", "m3">>].timestamp = 2 /\ messages[<<"s1", "m3">>].isDeleted
    /\ transcript =
           Some([chatId |-> "c1", sessionId |-> "s1",
                 out |-> Returned(<<messages[<<"s1", "m2">>]>>)])

Unread(a) == [a EXCEPT !.isRead = FALSE, !.readAt = None]

IsPrefix(s, t) == Len(s) <= Len(t) /\ SubSeq(t, 1, Len(s)) = s

\* C27: a message's edition history is append-only: every storage operation
\* leaves the edition history of every stored message as it was, or extends
\* it at its end by one entry
C27_EditionAppendOnly ==
    [][\A k \in MessageKeys :
          messages[k].exists =>
              /\ IsPrefix(messages[k].edition, messages'[k].edition)
              /\ Len(messages'[k].edition) <= Len(messages[k].edition) + 1]_vars

\* C28: the session update changes only the title: over every step, a stored
\* session stays stored and keeps its status, its refId and its sessionData
C28_OnlyTitleChanges ==
    [][\A s \in DOMAIN sessions :
          sessions[s].exists =>
              /\ sessions'[s].exists
              /\ sessions'[s].status = sessions[s].status
              /\ sessions'[s].refId = sessions[s].refId
              /\ sessions'[s].sessionData = sessions[s].sessionData]_vars

\* C29: the consumer does not deduplicate. Every delivery whose create has
\* resolved has exactly one row of its own, also when the collection already
\* holds an identical row from an earlier delivery of the message; a delivery
\* whose create has not resolved has none; so the rows are as many as the
\* deliveries that persisted.
C29_NoDeduplication ==
    /\ [](/\ \A d \in 1..deliveries : Cardinality(RowsOf(d)) <= 1
          /\ \A i \in DOMAIN origin : origin[i] \in 1..deliveries
          /\ ("persisted" \in Range(trace)) <=> (RowsOf(deliveries) # {})
          /\ Len(alerts) = Cardinality(Range(origin)))
    /\ [][(hpc = "awaitCreate" /\ hpc' = "created")
            => alerts' = Append(alerts, pending[1])]_vars

C29_Witness ==
    /\ payload.pattern = "message_deleted"
    /\ WellFormed(payload)
    /\ crashes = 1
    /\ Len(alerts) = 2
    /\ alerts[1] = alerts[2]
    /\ origin = <<1, 2>>
    /\ qstate = "acked"

\* C30: while the store has accepted no write (every create so far was
\* rejected), a well-formed message has never been acknowledged and is never
\* gone from the queue; every rejected create was answered by a nack with
\* requeue, every delivery has been nacked, lost with the channel or is in
\* flight, and a handler that has returned left the message ready for the
\* next delivery, however many rejections came before.
C30_RejectingStoreAlwaysRequeues ==
    (WellFormed(payload) /\ alerts = <<>> /\ hpc # "created")
    => /\ acks = 0
       /\ qstate \in {"ready", "unacked"}
       /\ nacks = rejects
       /\ deliveries = nacks + crashes + (IF qstate = "unacked" THEN 1 ELSE 0)
       /\ hpc = "returned" =>
              /\ trace = <<"create", "throw", "nack">>
              /\ qstate = "ready"

C30_Witness ==
    /\ payload.pattern = "message_edited"
    /\ WellFormed(payload)
    /\ alerts = <<>>
    /\ hpc = "returned"
    /\ nacks = MaxRejects
    /\ deliveries = MaxRejects
    /\ qstate = "ready"

\* C31: no starvation under retry by re-selection: with no new message
\* arriving and a store and services that answer, a conversation of a
\* session linked to a project that matches the job's filter is eventually
\* analyzed by some pass (it no longer matches the filter), however many
\* other matching conversations fail on every pass.
C31_NoStarvation ==
    (NeedsAnalysis(chats[<<"s1", "c1">>])) ~> (~NeedsAnalysis(chats[<<"s1", "c1">>]))

\* C32: a scheduling pass always terminates: a pass that has entered its
\* loop eventually is done, also when an inference request never returns.
C32_PassTerminates ==
    \A r \in {1} : (runs[r].pc = "loop") ~> (runs[r].pc = "done")

\* C33: when the reply of the model cannot be parsed, the update that is
\* applied stores the fallback object as the conversation's analysis together
\* with the lastAnalysisTimestamp of the call; a conversation that holds the
\* fallback object has a lastAnalysisTimestamp (it differs from a
\* conversation never analyzed), does not match the job's filter, and is in
\* the batch of no pass that starts while no newer message has been stored.
C33_FallbackCountsAsAnalyzed ==
    /\ [][\A r \in DOMAIN runs : \A i \in DOMAIN runs[r].tasks :
            (Applies(r, i) /\ runs[r].tasks[i].result = Some("fallback")) =>
               LET k == Candidate(runs[r], i) IN
               /\ chats'[k].analysis = Some("fallback")
               /\ chats'[k].lastAnalysisTimestamp = runs[r].tasks[i].stamp
               /\ runs[r].tasks[i].stamp # None
               /\ ~NeedsAnalysis(chats'[k])]_vars
    /\ [](\A k \in DOMAIN chats :
            chats[k].analysis = Some("fallback") =>
               /\ chats[k].lastAnalysisTimestamp # None
               /\ ~NeedsAnalysis(chats[k]))
    /\ [][\A r \in DOMAIN runs :
            (runs[r].pc \in {"idle", "done"} /\ runs'[r].pc = "loop") =>
               \A j \in DOMAIN runs'[r].batch :
                  chats[runs'[r].batch[j]].analysis # Some("fallback")]_vars

\* the conversation (s1, c1) holds the fallback object and a pass that
\* started afterwards found nothing to analyze
C33_Witness ==
    /\ chats[<<"s1", "c1">>].analysis = Some("fallback")
    /\ chats[<<"s1", "c1">>].lastAnalysisTimestamp # None
    /\ HasLastMessage(chats[<<"s1", "c1">>])
    /\ runs[1].pc = "done"
    /\ runs[1].batch = <<>>
    /\ runs[2].pc = "done"
    /\ runs[2].batch = << <<"s1", "c1">> >>

\* C34: an analyzeConversation call that reads the messages of a
\* conversation with no non-deleted message (and whose find answers) sends
\* no inference request: it issues its update at once, with the object
\* {error: 'No messages found in this conversation.'} and
\* lastAnalysisTimestamp = Date.now(); when the update is applied the
\* conversation holds that object and that time, the call returns
\* {success: true, chatId, analysis: that object}, and the conversation no
\* longer matches the job's filter, so no pass that starts while no newer
\* message is stored takes it.
C34_NoMessagesStoresErrorObject ==
    /\ [][\A r \in DOMAIN runs : \A i \in DOMAIN runs[r].tasks :
            LET k == Candidate(runs[r], i) IN
            (/\ runs[r].tasks[i].pc = "messages"
             /\ Live(k[2], k[1]) = {}
             /\ runs'[r] # runs[r]
             /\ i \notin DOMAIN runs'[r].settled)
            => /\ i \in DOMAIN runs'[r].tasks
               /\ runs'[r].tasks[i].pc = "write"
               /\ runs'[r].tasks[i].startTime = None
               /\ runs'[r].tasks[i].result = Some("no_messages")
               /\ runs'[r].tasks[i].stamp = Some(DateNow)]_vars
    /\ [][\A r \in DOMAIN runs : \A i \in DOMAIN runs[r].tasks :
            (Applies(r, i) /\ runs[r].tasks[i].result = Some("no_messages")) =>
               LET k == Candidate(runs[r], i) IN
               /\ runs[r].tasks[i].startTime = None
               /\ chats'[k].analysis = Some("no_messages")
               /\ chats'[k].lastAnalysisTimestamp = runs[r].tasks[i].stamp
               /\ runs'[r].settled[i] =
                      Returned([success |-> TRUE, chatId |-> k[2],
                                analysis |-> "no_messages"])
               /\ ~NeedsAnalysis(chats'[k])]_vars
    /\ [][\A r \in DOMAIN runs :
            (runs[r].pc \in {"idle", "done"} /\ runs'[r].pc = "loop") =>
               \A j \in DOMAIN runs'[r].batch :
                  chats[runs'[r].batch[j]].analysis # Some("no_messages")]_vars

\* the only message of the conversation (s1, c1) was marked deleted, the
\* pass analyzed it without asking the model, and the next pass found
\* nothing to analyze
C34_Witness ==
    /\ messages[<<"s1", "m1">>].exists
    /\ messages[<<"s1", "m1">>].chatId = "c1"
    /\ messages[<<"s1", "m1">>].isDeleted
    /\ ~messages[<<"s1", "m2">>].exists
    /\ chats[<<"s1", "c1">>].analysis = Some("no_messages")
    /\ chats[<<"s1", "c1">>].lastAnalysisTimestamp = Some(2 * MsPerSec)
    /\ ~chats[<<"s2", "c1">>].exists
    /\ runs[1].pc = "done"
    /\ runs[1].batch = <<>>

C36_EachCallAddsItsEntry ==
    [][\A c \in CallIds :
          (/\ storageCalls[c].op = "updateMessageEdition"
           /\ storageCalls[c].pc = "write"
           /\ storageCalls'[c].pc = "done")
          => messageDocs'[1].edition =
                 Append(messageDocs[1].edition, storageCalls[c].prevBody)]_vars

\* C37: the deletion history of a chat only grows. Over every step a stored
\* chat stays stored and its deletedAt list keeps its entries and their order;
\* the list changes only by one timestamp (the current time) appended at its
\* end, together with deleted = true; a chat that a step creates starts with
\* an empty list; and a chat that was never saved is not created by
\* markChatAsDeleted.
C37_DeletionHistoryOnlyGrows ==
    /\ [][\A k \in DOMAIN chats :
            /\ chats[k].exists =>
                  /\ chats'[k].exists
                  /\ IsPrefix(chats[k].deletedAt, chats'[k].deletedAt)
                  /\ chats'[k].deletedAt # chats[k].deletedAt =>
                        /\ chats'[k].deletedAt = Append(chats[k].deletedAt, DateNow)
                        /\ chats'[k].deleted = Some(TRUE)
            /\ (~chats[k].exists /\ chats'[k].exists) => chats'[k].deletedAt = <<>>]_vars
    /\ [](chats[<<"s2", "c1">>] = NoChat)

\* the chat was deleted twice and saved again: it is no longer marked
\* deleted and its history holds both deletions
C37_Witness ==
    /\ chats[<<"s1", "c1">>].exists
    /\ Len(chats[<<"s1", "c1">>].deletedAt) = 2
    /\ chats[<<"s1", "c1">>].deletedAt[1] < chats[<<"s1", "c1">>].deletedAt[2]
    /\ chats[<<"s1", "c1">>].deleted = Some(FALSE)

\* C38: saveChats is equivalent to saveChat called for each chat in order.
\* In every reachable store and for every list of chats, the store after the
\* bulk write of the whole list equals the store after saveChat was called
\* for each chat of the list in order.
C38_BatchEqualsEach ==
    \A list \in ChatLists :
        BulkWriteChats(chats, "s1", list) = SaveEachChat(chats, "s1", list)

====
